---- MODULE Spec2Model ----
(***************************************************************************)
(* A model of fsgrid: a cartesian, non-loadbalancing MPI grid with ghost   *)
(* cells.  The model follows the sources under src/:                        *)
(*   src/src/grid.hpp      FsGrid (the revision with neighbour[] and       *)
(*                         LocalIDForCoords)                                *)
(*   src/unnamed/part_004  FsStencil/BitMask32 and a later FsGrid revision  *)
(*   src/unnamed/part_005  the FsGrid revision built on Coordinates         *)
(*   src/unnamed/part_003  the FsStencil revision with localityMultipliers  *)
(* tools.hpp and coordinates.hpp are not among the sources; what the model  *)
(* needs of them is taken from the specification and marked so.             *)
(*                                                                         *)
(* Triples are <<x, y, z>>, indexed 1..3.  Ranks are 0..N-1.               *)
(***************************************************************************)
EXTENDS Integers, Sequences, FiniteSets, TLC

(***************************************************************************)
(* Bounds of the model                                                     *)
(***************************************************************************)
\* largest global size per axis, exchange specification
MaxG == 2
\* largest number of FS ranks, exchange specification
MaxProcs == 2
\* largest ghost cell width (template parameter stencil), exchange specification
MaxH == 2
\* number of updateGhostCells() calls each worker makes at most
MaxRounds == 2

VARIABLES
    cfg,      \* constructor arguments: globalSize, decomposition, numRanks, periodic, stencil
    phase,    \* "new" before the constructors ran, then "ready" or "failed"
    grids,    \* rank -> the FsGrid object's fields set by the constructor
    data,     \* rank -> the cell buffer (storage index -> value)
    pc,       \* rank -> position inside updateGhostCells(): "idle", "recv", "wait"
    round,    \* rank -> number of updateGhostCells() calls that returned
    recvReq,  \* rank -> shiftIds whose receive request is posted and not complete
    msgs,     \* messages sent and not yet received
    wroteAt,  \* rank -> the gaps (number of completed calls) in which it wrote its cells
    hist,     \* rank -> the cell buffer as it was at each return of updateGhostCells()
    q         \* the last accessor call and its result (access specifications)

vars == <<cfg, phase, grids, data, pc, round, recvReq, msgs, wroteAt, hist, q>>

(***************************************************************************)
(* MPI constants                                                           *)
(***************************************************************************)
MPI_PROC_NULL == -2
MPI_DATATYPE_NULL == [null |-> TRUE, size |-> <<0, 0, 0>>, start |-> <<0, 0, 0>>]

Dirs == 0..26

(***************************************************************************)
(* Linear neighbour index <-> triplet                                      *)
(***************************************************************************)
xyzToLinear(x, y, z) == (x + 1) * 9 + (y + 1) * 3 + (z + 1)
linearToX(i) == (i \div 9) - 1
linearToY(i) == ((i % 9) \div 3) - 1
linearToZ(i) == (i % 3) - 1
linearToXYZ(i) == <<linearToX(i), linearToY(i), linearToZ(i)>>

(***************************************************************************)
(* tools.hpp (not among the sources): slab sizes, from the specification   *)
(***************************************************************************)
calcLocalSize(G, P, t) == (G \div P) + (IF t < G % P THEN 1 ELSE 0)

RECURSIVE calcLocalStart(_, _, _)
calcLocalStart(G, P, t) ==
    IF t = 0 THEN 0 ELSE calcLocalStart(G, P, t - 1) + calcLocalSize(G, P, t - 1)

(***************************************************************************)
(* The cartesian communicator (MPI_Cart_create, reorder = 0: row major)    *)
(***************************************************************************)
MPI_Cart_rank(P, pos) == (pos[1] * P[2] + pos[2]) * P[3] + pos[3]
MPI_Cart_coords(P, r) == <<r \div (P[2] * P[3]), (r \div P[3]) % P[2], r % P[3]>>

(***************************************************************************)
(* Constructor pieces                                                      *)
(***************************************************************************)
\* computeNumTasksPerDim that accepts every decomposition that fits in numRanks
computeNumTasksPerDim_atMost(decomposition, numRanks) ==
    IF decomposition[1] * decomposition[2] * decomposition[3] \notin 1..numRanks
    THEN "error"
    ELSE decomposition

\* localSizeTooSmall that only looks for empty slabs
localSizeTooSmall_zeroOnly(globalSize, localSize, stencilSize) ==
    \E i \in 1..3 : localSize[i] = 0

\* grid.hpp:81-95, part_004:539-551; "error" when the product is not numRanks
computeNumTasksPerDim(decomposition, numRanks) ==
    IF decomposition[1] * decomposition[2] * decomposition[3] # numRanks
    THEN "error"
    ELSE decomposition

localSizeTooSmall(globalSize, localSize, stencilSize) ==
    LET anyLocalIsZero == \E i \in 1..3 : localSize[i] = 0
        stencilSizeBoundedByGlobalAndLocalSizes ==
            \E i \in 1..3 : globalSize[i] > stencilSize /\ stencilSize > localSize[i]
    IN anyLocalIsZero \/ stencilSizeBoundedByGlobalAndLocalSizes

\* mapNeigbourIndexToRank that does not wrap on a periodic axis
mapNeigbourIndexToRank_noWrap(taskPosition, numTasksPerDim, periodic, rank) ==
    [n \in Dirs |->
        LET neighbourPosition == [i \in 1..3 |-> taskPosition[i] + linearToXYZ(n)[i]]
        IN IF rank # -1 /\ \A i \in 1..3 : numTasksPerDim[i] > neighbourPosition[i] /\ neighbourPosition[i] >= 0
           THEN MPI_Cart_rank(numTasksPerDim, neighbourPosition)
           ELSE MPI_PROC_NULL]

mapNeigbourIndexToRank(taskPosition, numTasksPerDim, periodic, rank) ==
    LET calculateNeighbourPosition(neighbourIndex, i) ==
            LET pos3D == linearToXYZ(neighbourIndex)[i]
                nonPeriodicPos == taskPosition[i] + pos3D
            IN IF periodic[i]
               THEN (nonPeriodicPos + numTasksPerDim[i]) % numTasksPerDim[i]
               ELSE nonPeriodicPos
        calculateNeighbourRank(neighbourIndex) ==
            LET neighbourPosition == [i \in 1..3 |-> calculateNeighbourPosition(neighbourIndex, i)]
                taskPositionWithinLimits ==
                    \A i \in 1..3 : numTasksPerDim[i] > neighbourPosition[i] /\ neighbourPosition[i] >= 0
            IN IF taskPositionWithinLimits
               THEN MPI_Cart_rank(numTasksPerDim, neighbourPosition)
               ELSE MPI_PROC_NULL
    IN IF rank = -1
       THEN [n \in Dirs |-> MPI_PROC_NULL]
       ELSE [n \in Dirs |-> calculateNeighbourRank(n)]

computeStorageSize(globalSize, localSize, stencilSize) ==
    [i \in 1..3 |-> IF globalSize[i] <= 1 THEN 1 ELSE localSize[i] + stencilSize * 2]

\* The 27 descriptors with the start of the block on one axis given by start
SubarrayTypes(storageSize, localSize, stencilSize, start(_, _)) ==
    [i \in Dirs |->
        LET x == linearToX(i)
            y == linearToY(i)
            z == linearToZ(i)
        IN IF \/ x = 0 /\ y = 0 /\ z = 0
              \/ storageSize[1] = 1 /\ x # 0
              \/ storageSize[2] = 1 /\ y # 0
              \/ storageSize[3] = 1 /\ z # 0
           THEN MPI_DATATYPE_NULL
           ELSE [null |-> FALSE,
                 size |-> << IF z = 0 THEN localSize[3] ELSE stencilSize,
                             IF y = 0 THEN localSize[2] ELSE stencilSize,
                             IF x = 0 THEN localSize[1] ELSE stencilSize >>,
                 start |-> << start(storageSize[3], z), start(storageSize[2], y), start(storageSize[1], x) >>] ]

\* generateMPITypes whose send block on an axis with offset +1 is the halo layer
\* (start Si - H) instead of the outermost inner layer
generateMPITypes_sendHalo(storageSize, localSize, stencilSize, generateForSend) ==
    SubarrayTypes(storageSize, localSize, stencilSize,
        LAMBDA s, c :
            IF s = 1 THEN 0
            ELSE IF generateForSend
                 THEN (IF c = 1 THEN s - stencilSize ELSE stencilSize)
                 ELSE (IF c = -1 THEN s - stencilSize ELSE (IF c = 0 THEN stencilSize ELSE 0)))

\* generateMPITypes whose receive block is on the side the offset points to
generateMPITypes_recvSameSide(storageSize, localSize, stencilSize, generateForSend) ==
    SubarrayTypes(storageSize, localSize, stencilSize,
        LAMBDA s, c :
            IF s = 1 THEN 0
            ELSE IF generateForSend
                 THEN (IF c = 1 THEN s - 2 * stencilSize ELSE stencilSize)
                 ELSE (IF c = 1 THEN s - stencilSize ELSE (IF c = 0 THEN stencilSize ELSE 0)))

\* The descriptors keep the code's reversed (z, y, x) order.
generateMPITypes(storageSize, localSize, stencilSize, generateForSend) ==
    [i \in Dirs |->
        LET x == linearToX(i)
            y == linearToY(i)
            z == linearToZ(i)
            self == x = 0 /\ y = 0 /\ z = 0
            flatX == storageSize[1] = 1 /\ x # 0
            flatY == storageSize[2] = 1 /\ y # 0
            flatZ == storageSize[3] = 1 /\ z # 0
            skip == flatX \/ flatY \/ flatZ \/ self
            reverseSubarraySize ==
                << IF z = 0 THEN localSize[3] ELSE stencilSize,
                   IF y = 0 THEN localSize[2] ELSE stencilSize,
                   IF x = 0 THEN localSize[1] ELSE stencilSize >>
            sendStart(s, c) == IF s = 1 THEN 0 ELSE (IF c = 1 THEN s - 2 * stencilSize ELSE stencilSize)
            recvStart(s, c) ==
                IF s = 1 THEN 0
                ELSE (IF c = -1 THEN s - stencilSize ELSE (IF c = 0 THEN stencilSize ELSE 0))
            reverseSubarrayStart ==
                IF generateForSend
                THEN << sendStart(storageSize[3], z), sendStart(storageSize[2], y), sendStart(storageSize[1], x) >>
                ELSE << recvStart(storageSize[3], z), recvStart(storageSize[2], y), recvStart(storageSize[1], x) >>
        IN IF skip
           THEN MPI_DATATYPE_NULL
           ELSE [null |-> FALSE, size |-> reverseSubarraySize, start |-> reverseSubarrayStart] ]

\* The FsGrid object of one process after its constructor
FsGrid(c, r) ==
    LET numTasksPerDim == computeNumTasksPerDim(c.decomposition, c.numRanks)
        taskPosition == MPI_Cart_coords(numTasksPerDim, r)
        localSize == [i \in 1..3 |-> calcLocalSize(c.globalSize[i], numTasksPerDim[i], taskPosition[i])]
        localStart == [i \in 1..3 |-> calcLocalStart(c.globalSize[i], numTasksPerDim[i], taskPosition[i])]
        storageSize == computeStorageSize(c.globalSize, localSize, c.stencil)
    IN [ rank |-> r,
         numTasksPerDim |-> numTasksPerDim,
         taskPosition |-> taskPosition,
         localSize |-> localSize,
         localStart |-> localStart,
         storageSize |-> storageSize,
         tooSmall |-> localSizeTooSmall(c.globalSize, localSize, c.stencil),
         neighbourIndexToRank |-> mapNeigbourIndexToRank(taskPosition, numTasksPerDim, c.periodic, r),
         neighbourSendType |-> generateMPITypes(storageSize, localSize, c.stencil, TRUE),
         neighbourReceiveType |-> generateMPITypes(storageSize, localSize, c.stencil, FALSE) ]

(***************************************************************************)
(* Storage and global ids (grid.hpp)                                       *)
(***************************************************************************)
Product3(s) == s[1] * s[2] * s[3]

GlobalIDForCoords(c, g, x, y, z) ==
    x + g.localStart[1] + c.globalSize[1] * (y + g.localStart[2])
      + c.globalSize[1] * c.globalSize[2] * (z + g.localStart[3])

\* LocalIDForCoords that adds the halo offset on collapsed axes as well
LocalIDForCoords_noCollapse(c, g, x, y, z) ==
    g.storageSize[1] * g.storageSize[2] * (c.stencil + z)
  + g.storageSize[1] * (c.stencil + y)
  + (c.stencil + x)

LocalIDForCoords(c, g, x, y, z) ==
    (IF c.globalSize[3] > 1 THEN g.storageSize[1] * g.storageSize[2] * (c.stencil + z) ELSE 0)
  + (IF c.globalSize[2] > 1 THEN g.storageSize[1] * (c.stencil + y) ELSE 0)
  + (IF c.globalSize[1] > 1 THEN c.stencil + x ELSE 0)

(***************************************************************************)
(* What MPI does with a subarray datatype (MPI_ORDER_C over the reversed   *)
(* storage size): the storage indices it covers, in type-map order.        *)
(***************************************************************************)
SubarrayCount(t) == IF t.null THEN 0 ELSE t.size[1] * t.size[2] * t.size[3]

SubarrayCell(storageSize, t, k) ==
    LET a == (k - 1) \div (t.size[2] * t.size[3])
        b == ((k - 1) \div t.size[3]) % t.size[2]
        e == (k - 1) % t.size[3]
    IN ((t.start[1] + a) * storageSize[2] + (t.start[2] + b)) * storageSize[1] + (t.start[3] + e)

SubarrayHolds(storageSize, t, idx) ==
    LET sz == idx \div (storageSize[1] * storageSize[2])
        sy == (idx \div storageSize[1]) % storageSize[2]
        sx == idx % storageSize[1]
    IN /\ ~t.null
       /\ sz >= t.start[1] /\ sz < t.start[1] + t.size[1]
       /\ sy >= t.start[2] /\ sy < t.start[2] + t.size[2]
       /\ sx >= t.start[3] /\ sx < t.start[3] + t.size[3]

SubarrayPos(storageSize, t, idx) ==
    LET sz == idx \div (storageSize[1] * storageSize[2])
        sy == (idx \div storageSize[1]) % storageSize[2]
        sx == idx % storageSize[1]
    IN ((sz - t.start[1]) * t.size[2] + (sy - t.start[2])) * t.size[3] + (sx - t.start[3]) + 1

Pack(buf, storageSize, t) == [k \in 1..SubarrayCount(t) |-> buf[SubarrayCell(storageSize, t, k)]]

(***************************************************************************)
(* Configurations                                                          *)
(***************************************************************************)
Triples(S) == {<<a, b, e>> : a \in S, b \in S, e \in S}

Configs(maxG, maxProcs, maxH) ==
    [ globalSize : Triples(1..maxG),
      decomposition : {d \in Triples(0..maxProcs) : d # <<0, 0, 0>> /\ d[1] * d[2] * d[3] <= maxProcs},
      numRanks : 1..maxProcs,
      periodic : Triples(BOOLEAN),
      stencil : 1..maxH ]

Ranks == 0..(cfg.numRanks - 1)

(***************************************************************************)
(* Initial state: the arguments are chosen, no constructor has run         *)
(***************************************************************************)
NoCall == [op |-> "none"]

InitCommon ==
    /\ phase = "new"
    /\ grids = <<>>
    /\ data = <<>>
    /\ pc = <<>>
    /\ round = <<>>
    /\ recvReq = <<>>
    /\ msgs = {}
    /\ wroteAt = <<>>
    /\ hist = <<>>
    /\ q = NoCall

Init ==
    /\ cfg \in Configs(MaxG, MaxProcs, MaxH)
    /\ InitCommon

(***************************************************************************)
(* The constructor, run by every FS rank                                   *)
(***************************************************************************)
Construct ==
    /\ phase = "new"
    /\ IF computeNumTasksPerDim(cfg.decomposition, cfg.numRanks) = "error"
       THEN /\ phase' = "failed"
            /\ UNCHANGED <<grids, data, pc, round, recvReq, wroteAt, hist>>
       ELSE LET gs == [r \in Ranks |-> FsGrid(cfg, r)]
            IN /\ grids' = gs
               /\ phase' = IF \E r \in Ranks : gs[r].tooSmall THEN "failed" ELSE "ready"
               /\ data' = [r \in Ranks |-> [i \in 0..(Product3(gs[r].storageSize) - 1) |-> 0]]
               /\ pc' = [r \in Ranks |-> "idle"]
               /\ round' = [r \in Ranks |-> 0]
               /\ recvReq' = [r \in Ranks |-> {}]
               /\ wroteAt' = [r \in Ranks |-> {}]
               /\ hist' = [r \in Ranks |-> <<>>]
    /\ UNCHANGED <<cfg, msgs, q>>

(***************************************************************************)
(* The user writes its inner cells between two exchanges                   *)
(***************************************************************************)
CellValue(gid, gap) == (gap + 1) * 100 + gid

InnerCells(g) ==
    {<<x, y, z>> : x \in 0..(g.localSize[1] - 1), y \in 0..(g.localSize[2] - 1), z \in 0..(g.localSize[3] - 1)}

InnerAt(c, g, idx) ==
    {cell \in InnerCells(g) : LocalIDForCoords(c, g, cell[1], cell[2], cell[3]) = idx}

Write(p) ==
    /\ phase = "ready"
    /\ pc[p] = "idle"
    /\ round[p] < MaxRounds
    /\ round[p] \notin wroteAt[p]
    /\ data' = [data EXCEPT ![p] =
          [idx \in DOMAIN data[p] |->
              LET cells == InnerAt(cfg, grids[p], idx)
              IN IF cells = {} THEN data[p][idx]
                 ELSE LET cell == CHOOSE cell \in cells : TRUE
                      IN CellValue(GlobalIDForCoords(cfg, grids[p], cell[1], cell[2], cell[3]), round[p])]]
    /\ wroteAt' = [wroteAt EXCEPT ![p] = @ \cup {round[p]}]
    /\ UNCHANGED <<cfg, phase, grids, pc, round, recvReq, msgs, hist, q>>

(***************************************************************************)
(* updateGhostCells(), one action per step of the call                     *)
(***************************************************************************)
\* the source of a receive taken on the side the data is sent to
ReceiveFrom_sameSide(g, shiftId) == g.neighbourIndexToRank[shiftId]

ReceiveFrom(g, shiftId) == g.neighbourIndexToRank[26 - shiftId]

\* first loop that posts a receive for every neighbour, whatever the descriptor
PostReceives_anyDescriptor(p) ==
    /\ phase = "ready"
    /\ pc[p] = "idle"
    /\ round[p] < MaxRounds
    /\ recvReq' = [recvReq EXCEPT ![p] = {shiftId \in Dirs : ReceiveFrom(grids[p], shiftId) # MPI_PROC_NULL}]
    /\ pc' = [pc EXCEPT ![p] = "recv"]
    /\ UNCHANGED <<cfg, phase, grids, data, round, msgs, wroteAt, hist, q>>

\* first loop: the receives are posted
PostReceives(p) ==
    /\ phase = "ready"
    /\ pc[p] = "idle"
    /\ round[p] < MaxRounds
    /\ recvReq' = [recvReq EXCEPT ![p] =
          {shiftId \in Dirs : /\ ReceiveFrom(grids[p], shiftId) # MPI_PROC_NULL
                              /\ grids[p].neighbourSendType[shiftId] # MPI_DATATYPE_NULL}]
    /\ pc' = [pc EXCEPT ![p] = "recv"]
    /\ UNCHANGED <<cfg, phase, grids, data, round, msgs, wroteAt, hist, q>>

\* second loop: the sends are posted
PostSends(p) ==
    /\ phase = "ready"
    /\ pc[p] = "recv"
    /\ msgs' = msgs \cup
          { [src |-> p, dst |-> grids[p].neighbourIndexToRank[shiftId], tag |-> shiftId, rnd |-> round[p],
             snap |-> Pack(data[p], grids[p].storageSize, grids[p].neighbourSendType[shiftId])] :
            shiftId \in {s \in Dirs : /\ grids[p].neighbourIndexToRank[s] # MPI_PROC_NULL
                                      /\ grids[p].neighbourSendType[s] # MPI_DATATYPE_NULL} }
    /\ pc' = [pc EXCEPT ![p] = "wait"]
    /\ UNCHANGED <<cfg, phase, grids, data, round, recvReq, wroteAt, hist, q>>

\* messages that match the receive p posted for shiftId (source and tag)
Matching(p, shiftId) ==
    {m \in msgs : m.dst = p /\ m.src = ReceiveFrom(grids[p], shiftId) /\ m.tag = shiftId}

\* MPI is non-overtaking: the oldest matching message is received
Oldest(ms) == CHOOSE m \in ms : \A n \in ms : m.rnd <= n.rnd

\* What a receive stores: the sender's buffer as it was when the send was
\* posted, or (late = TRUE) as it is now while the sender is still inside
\* the call that posted the send.  The two differ only when the sender's
\* send block is written by one of its own receives.
Payload(m, late) ==
    IF late /\ pc[m.src] = "wait" /\ round[m.src] = m.rnd
    THEN Pack(data[m.src], grids[m.src].storageSize, grids[m.src].neighbourSendType[m.tag])
    ELSE m.snap

\* The MPI library completes the receives p has posted
Deliver(p, late) ==
    /\ phase = "ready"
    /\ pc[p] \in {"recv", "wait"}
    /\ recvReq[p] # {}
    /\ \A shiftId \in recvReq[p] : Matching(p, shiftId) # {}
    /\ LET got == [shiftId \in recvReq[p] |-> Oldest(Matching(p, shiftId))]
           S == grids[p].storageSize
           hit(idx) == {shiftId \in recvReq[p] :
                           /\ SubarrayHolds(S, grids[p].neighbourReceiveType[shiftId], idx)
                           /\ SubarrayPos(S, grids[p].neighbourReceiveType[shiftId], idx)
                                  <= Len(got[shiftId].snap)}
       IN /\ data' = [data EXCEPT ![p] =
                [idx \in DOMAIN data[p] |->
                    IF hit(idx) = {} THEN data[p][idx]
                    ELSE LET shiftId == CHOOSE s \in hit(idx) : TRUE
                         IN Payload(got[shiftId], late)[SubarrayPos(S, grids[p].neighbourReceiveType[shiftId], idx)]]]
          /\ msgs' = msgs \ {got[shiftId] : shiftId \in recvReq[p]}
    /\ recvReq' = [recvReq EXCEPT ![p] = {}]
    /\ UNCHANGED <<cfg, phase, grids, pc, round, wroteAt, hist, q>>

\* updateGhostCells() that returns without waiting for its receives
Return_early(p) ==
    /\ phase = "ready"
    /\ pc[p] = "wait"
    /\ pc' = [pc EXCEPT ![p] = "idle"]
    /\ round' = [round EXCEPT ![p] = @ + 1]
    /\ hist' = [hist EXCEPT ![p] = Append(@, data[p])]
    /\ UNCHANGED <<cfg, phase, grids, data, recvReq, msgs, wroteAt, q>>

\* both MPI_Waitall calls have returned
Return(p) ==
    /\ phase = "ready"
    /\ pc[p] = "wait"
    /\ recvReq[p] = {}
    /\ pc' = [pc EXCEPT ![p] = "idle"]
    /\ round' = [round EXCEPT ![p] = @ + 1]
    /\ hist' = [hist EXCEPT ![p] = Append(@, data[p])]
    /\ UNCHANGED <<cfg, phase, grids, data, recvReq, msgs, wroteAt, q>>

Next ==
    \/ Construct
    \/ \E p \in DOMAIN pc : Write(p)
    \/ \E p \in DOMAIN pc : PostReceives(p)
    \/ \E p \in DOMAIN pc : PostSends(p)
    \/ \E p \in DOMAIN pc, late \in BOOLEAN : Deliver(p, late)
    \/ \E p \in DOMAIN pc : Return(p)

Spec == Init /\ [][Next]_vars

(***************************************************************************)
(* Halo exchange properties                                                *)
(***************************************************************************)
\* local coordinates that have a storage place: [-H, L+H) on an axis with
\* G > 1, only 0 on a collapsed axis
StoredRange(c, g, i) ==
    IF c.globalSize[i] <= 1 THEN {0} ELSE (0 - c.stencil)..(g.localSize[i] + c.stencil - 1)

StoredCells(c, g) ==
    {<<x, y, z>> : x \in StoredRange(c, g, 1), y \in StoredRange(c, g, 2), z \in StoredRange(c, g, 3)}

HaloCells(c, g) == StoredCells(c, g) \ InnerCells(g)

\* the global coordinate a local coordinate stands for (wrapped on a
\* periodic axis); outside 0..G-1 it stands for no cell
GlobalCoord(c, g, i, v) ==
    LET raw == g.localStart[i] + v
    IN IF c.periodic[i] THEN ((raw % c.globalSize[i]) + c.globalSize[i]) % c.globalSize[i] ELSE raw

HasOwner(c, g, cell) ==
    \A i \in 1..3 : GlobalCoord(c, g, i, cell[i]) \in 0..(c.globalSize[i] - 1)

\* the rank whose slab holds the global coordinate, and the cell's local
\* coordinate there
OwnerOf(c, g, cell) ==
    CHOOSE r \in 0..(c.numRanks - 1) :
        \A i \in 1..3 :
            LET gc == GlobalCoord(c, g, i, cell[i])
            IN gc >= grids[r].localStart[i] /\ gc < grids[r].localStart[i] + grids[r].localSize[i]

OwnerCell(c, g, cell) ==
    [i \in 1..3 |-> GlobalCoord(c, g, i, cell[i]) - grids[OwnerOf(c, g, cell)].localStart[i]]

\* in the buffers bufs (one per rank) every halo cell that stands for a cell
\* of the global domain holds what its owner holds there
HaloCorrect(bufs) ==
    \A p \in Ranks : \A cell \in HaloCells(cfg, grids[p]) :
        HasOwner(cfg, grids[p], cell) =>
            LET o == OwnerOf(cfg, grids[p], cell)
                oc == OwnerCell(cfg, grids[p], cell)
            IN bufs[p][LocalIDForCoords(cfg, grids[p], cell[1], cell[2], cell[3])]
                 = bufs[o][LocalIDForCoords(cfg, grids[o], oc[1], oc[2], oc[3])]

AllReturned(k) == phase = "ready" /\ \A p \in Ranks : round[p] >= k

\* an axis that is not collapsed and whose slab on some rank is thinner than
\* the halo: accepted by the constructor only when G <= H
ThinAxis == \E p \in Ranks : \E i \in 1..3 : cfg.globalSize[i] > 1 /\ grids[p].localSize[i] < cfg.stencil

\* C1: after every worker has completed one updateGhostCells(), every halo
\* cell whose owner exists holds the value its owner holds at the same
\* global coordinate, on every grid the constructor accepts.
C1_HaloCorrect ==
    AllReturned(1) => HaloCorrect([p \in Ranks |-> hist[p][1]])

\* C1 on the grids where no slab is thinner than the halo
C1_HaloCorrectWide ==
    (AllReturned(1) /\ ~ThinAxis) => HaloCorrect([p \in Ranks |-> hist[p][1]])

\* C2: two updateGhostCells() in a row, with no write in between, leave
\* every process's whole buffer after the second call as it was after the
\* first, on every grid the constructor accepts.
C2_Idempotent ==
    (AllReturned(2) /\ \A p \in Ranks : 1 \notin wroteAt[p]) =>
        \A p \in Ranks : hist[p][2] = hist[p][1]

\* C2 on the grids where no slab is thinner than the halo
C2_IdempotentWide ==
    (AllReturned(2) /\ ~ThinAxis /\ \A p \in Ranks : 1 \notin wroteAt[p]) =>
        \A p \in Ranks : hist[p][2] = hist[p][1]

(***************************************************************************)
(* BitMask32, StencilConstants, FsStencil (part_004:28-263)                *)
(*                                                                         *)
(* A uint32_t mask is held as the set of its set bit positions (0..31).    *)
(* A size_t result is held as the int32 value it was cast from; the cast   *)
(* is one-to-one, so that two results are equal exactly when the values    *)
(* held are.                                                               *)
(***************************************************************************)
\* operator[] without the index test: the index wraps at 32
BitMask32_wrap(bits, i) == IF i % 32 \in bits THEN 1 ELSE 0

BitMask32(bits, i) ==
    LET n == 32
        mul == IF i < n THEN 1 ELSE 0
        masked == i % n
    IN mul * (IF masked \in bits THEN 1 ELSE 0)

StencilConstants(limits, multipliers, offset, shift, fallbackToCenter) ==
    [limits |-> limits, multipliers |-> multipliers, offset |-> offset,
     shift |-> shift, fallbackToCenter |-> fallbackToCenter]

FsStencil(i, j, k, constants) == [i |-> i, j |-> j, k |-> k, constants |-> constants]

\* neighbourOffset with the upper limit counted as inside
neighbourOffset_limitInside(s, cellIndex) ==
    [a \in 1..3 |-> (IF cellIndex[a] > s.constants.limits[a] THEN 1 ELSE 0)
                  - (IF cellIndex[a] < 0 THEN 1 ELSE 0)]

neighbourOffset(s, cellIndex) ==
    [a \in 1..3 |-> (IF cellIndex[a] >= s.constants.limits[a] THEN 1 ELSE 0)
                  - (IF cellIndex[a] < 0 THEN 1 ELSE 0)]

neighbourIndex(no) == 13 + no[1] * 9 + no[2] * 3 + no[3]

\* shiftOffsets that moves away from the slab instead of back into it
shiftOffsets_outward(s, no) == [a \in 1..3 |-> no[a] * s.constants.limits[a]]

shiftOffsets(s, no) == [a \in 1..3 |-> (0 - no[a]) * s.constants.limits[a]]

offsetValues(s, cellIndex, no, ni) ==
    LET addOffset == BitMask32(s.constants.shift, ni)
        offsets == shiftOffsets(s, no)
    IN [a \in 1..3 |-> cellIndex[a] + addOffset * offsets[a]]

\* fallback that ignores the fallbackToCenter mask
fallback_never(s, cellIndex, ni) == cellIndex

fallback(s, cellIndex, ni) ==
    LET invalid == BitMask32(s.constants.fallbackToCenter, ni)
        valid == IF invalid = 1 THEN 0 ELSE 1
        centre == <<s.i, s.j, s.k>>
    IN [a \in 1..3 |-> valid * cellIndex[a] + invalid * centre[a]]

\* applyMultipliersAndOffset that leaves the offset out
applyMultipliersAndOffset_noOffset(s, cellIndex) ==
    s.constants.multipliers[1] * cellIndex[1]
  + s.constants.multipliers[2] * cellIndex[2]
  + s.constants.multipliers[3] * cellIndex[3]

applyMultipliersAndOffset(s, cellIndex) ==
    s.constants.offset + s.constants.multipliers[1] * cellIndex[1]
                       + s.constants.multipliers[2] * cellIndex[2]
                       + s.constants.multipliers[3] * cellIndex[3]

calculateIndex(s, cellIndex) ==
    LET no == neighbourOffset(s, cellIndex)
        ni == neighbourIndex(no)
    IN applyMultipliersAndOffset(s, fallback(s, offsetValues(s, cellIndex, no, ni), ni))

\* the revision of part_003:79-94, with centerCell in place of (i, j, k)
calculateIndex_003(s, cellIndex) ==
    LET locality == neighbourOffset(s, cellIndex)
        ni == neighbourIndex(locality)
        fb == BitMask32(s.constants.fallbackToCenter, ni)
        valid == IF fb = 1 THEN 0 ELSE 1
        addOffset == BitMask32(s.constants.shift, ni)
        offsets == shiftOffsets(s, locality)
        centerCell == <<s.i, s.j, s.k>>
    IN applyMultipliersAndOffset(s,
          [a \in 1..3 |-> valid * (cellIndex[a] + addOffset * offsets[a]) + fb * centerCell[a]])

\* cellExists that takes the displacement itself for the locality
cellExists_displacement(s, io, jo, ko) ==
    BitMask32(s.constants.fallbackToCenter, neighbourIndex(<<io, jo, ko>>)) = 0

cellExists(s, io, jo, ko) ==
    LET no == neighbourOffset(s, <<s.i + io, s.j + jo, s.k + ko>>)
        ni == neighbourIndex(no)
    IN BitMask32(s.constants.fallbackToCenter, ni) = 0

\* the cell each named accessor hands to calculateIndex
NamedCells(s) ==
    [ center        |-> <<s.i,     s.j,     s.k    >>,
      near          |-> <<s.i,     s.j,     s.k + 1>>,
      far           |-> <<s.i,     s.j,     s.k - 1>>,
      up            |-> <<s.i,     s.j + 1, s.k    >>,
      upnear        |-> <<s.i,     s.j + 1, s.k + 1>>,
      upfar         |-> <<s.i,     s.j + 1, s.k - 1>>,
      down          |-> <<s.i,     s.j - 1, s.k    >>,
      downnear      |-> <<s.i,     s.j - 1, s.k + 1>>,
      downfar       |-> <<s.i,     s.j - 1, s.k - 1>>,
      right         |-> <<s.i + 1, s.j,     s.k    >>,
      rightnear     |-> <<s.i + 1, s.j,     s.k + 1>>,
      rightfar      |-> <<s.i + 1, s.j,     s.k - 1>>,
      rightup       |-> <<s.i + 1, s.j + 1, s.k    >>,
      rightupnear   |-> <<s.i + 1, s.j + 1, s.k + 1>>,
      rightupfar    |-> <<s.i + 1, s.j + 1, s.k - 1>>,
      rightdown     |-> <<s.i + 1, s.j - 1, s.k    >>,
      rightdownnear |-> <<s.i + 1, s.j - 1, s.k + 1>>,
      rightdownfar  |-> <<s.i + 1, s.j - 1, s.k - 1>>,
      left          |-> <<s.i - 1, s.j,     s.k    >>,
      leftnear      |-> <<s.i - 1, s.j,     s.k + 1>>,
      leftfar       |-> <<s.i - 1, s.j,     s.k - 1>>,
      leftup        |-> <<s.i - 1, s.j + 1, s.k    >>,
      leftupnear    |-> <<s.i - 1, s.j + 1, s.k + 1>>,
      leftupfar     |-> <<s.i - 1, s.j + 1, s.k - 1>>,
      leftdown      |-> <<s.i - 1, s.j - 1, s.k    >>,
      leftdownnear  |-> <<s.i - 1, s.j - 1, s.k + 1>>,
      leftdownfar   |-> <<s.i - 1, s.j - 1, s.k - 1>> ]

\* center(), near(), ..., leftdownfar(): accessor name -> storage index
NamedAccessors(s) ==
    LET cells == NamedCells(s)
    IN [name \in DOMAIN cells |-> calculateIndex(s, cells[name])]

\* indices() from (+1,+1,+1) down to (-1,-1,-1)
indices_reversed(s) ==
    [m \in 1..27 |->
        calculateIndex(s, <<s.i - (((m - 1) % 3) - 1), s.j - ((((m - 1) \div 3) % 3) - 1), s.k - (((m - 1) \div 9) - 1)>>)]

\* indices() in the order of the linear neighbour index (z fastest)
indices_zFastest(s) ==
    [m \in 1..27 |->
        calculateIndex(s, <<s.i + linearToX(m - 1), s.j + linearToY(m - 1), s.k + linearToZ(m - 1)>>)]

\* indices(): entry m (0-based) is held at position m + 1
indices(s) ==
    << calculateIndex(s, <<s.i - 1, s.j - 1, s.k - 1>>),
       calculateIndex(s, <<s.i    , s.j - 1, s.k - 1>>),
       calculateIndex(s, <<s.i + 1, s.j - 1, s.k - 1>>),
       calculateIndex(s, <<s.i - 1, s.j    , s.k - 1>>),
       calculateIndex(s, <<s.i    , s.j    , s.k - 1>>),
       calculateIndex(s, <<s.i + 1, s.j    , s.k - 1>>),
       calculateIndex(s, <<s.i - 1, s.j + 1, s.k - 1>>),
       calculateIndex(s, <<s.i    , s.j + 1, s.k - 1>>),
       calculateIndex(s, <<s.i + 1, s.j + 1, s.k - 1>>),
       calculateIndex(s, <<s.i - 1, s.j - 1, s.k    >>),
       calculateIndex(s, <<s.i    , s.j - 1, s.k    >>),
       calculateIndex(s, <<s.i + 1, s.j - 1, s.k    >>),
       calculateIndex(s, <<s.i - 1, s.j    , s.k    >>),
       calculateIndex(s, <<s.i    , s.j    , s.k    >>),
       calculateIndex(s, <<s.i + 1, s.j    , s.k    >>),
       calculateIndex(s, <<s.i - 1, s.j + 1, s.k    >>),
       calculateIndex(s, <<s.i    , s.j + 1, s.k    >>),
       calculateIndex(s, <<s.i + 1, s.j + 1, s.k    >>),
       calculateIndex(s, <<s.i - 1, s.j - 1, s.k + 1>>),
       calculateIndex(s, <<s.i    , s.j - 1, s.k + 1>>),
       calculateIndex(s, <<s.i + 1, s.j - 1, s.k + 1>>),
       calculateIndex(s, <<s.i - 1, s.j    , s.k + 1>>),
       calculateIndex(s, <<s.i    , s.j    , s.k + 1>>),
       calculateIndex(s, <<s.i + 1, s.j    , s.k + 1>>),
       calculateIndex(s, <<s.i - 1, s.j + 1, s.k + 1>>),
       calculateIndex(s, <<s.i    , s.j + 1, s.k + 1>>),
       calculateIndex(s, <<s.i + 1, s.j + 1, s.k + 1>>) >>

(***************************************************************************)
(* coordinates.hpp and the stencil constants of a grid (not among the      *)
(* sources): from the specification                                        *)
(***************************************************************************)
\* makeNeigbourBitMask that does not leave out the centre
makeNeigbourBitMask_withCentre(rank, indexToRank) == {n \in Dirs : indexToRank[n] = rank}

\* bit n set iff n # 13 and indexToRank[n] = rank
makeNeigbourBitMask(rank, indexToRank) == {n \in Dirs : n # 13 /\ indexToRank[n] = rank}

\* bit n set iff n # 13 and indexToRank[n] is the null rank
makeNullNeighbourBitMask(indexToRank) == {n \in Dirs : n # 13 /\ indexToRank[n] = MPI_PROC_NULL}

\* (1, Sx, Sx*Sy), 0 on a collapsed axis
computeMultipliers(c, g) ==
    << IF c.globalSize[1] = 1 THEN 0 ELSE 1,
       IF c.globalSize[2] = 1 THEN 0 ELSE g.storageSize[1],
       IF c.globalSize[3] = 1 THEN 0 ELSE g.storageSize[1] * g.storageSize[2] >>

computeStencilConstants(c, g) ==
    LET m == computeMultipliers(c, g)
    IN StencilConstants(g.localSize, m, c.stencil * (m[1] + m[2] + m[3]),
                        makeNeigbourBitMask(g.rank, g.neighbourIndexToRank),
                        makeNullNeighbourBitMask(g.neighbourIndexToRank))

makeStencil(c, g, i, j, k) == FsStencil(i, j, k, computeStencilConstants(c, g))

Max0(v) == IF v > 0 THEN v ELSE 0

localIDFromLocalCoordinates(c, g, x, y, z) ==
    LET m == computeMultipliers(c, g)
        h(i) == IF c.globalSize[i] > 1 THEN c.stencil ELSE 0
    IN Max0(h(1) + x) * m[1] + Max0(h(2) + y) * m[2] + Max0(h(3) + z) * m[3]

cellIndicesAreWithinBounds(c, g, x, y, z) ==
    LET cell == <<x, y, z>>
    IN \A i \in 1..3 :
          IF c.globalSize[i] = 1
          THEN cell[i] = 0
          ELSE cell[i] >= 0 - c.stencil /\ cell[i] < g.localSize[i] + c.stencil

neighbourIndexFromCellCoordinates(g, x, y, z) ==
    LET cell == <<x, y, z>>
        side(i) == (IF cell[i] >= g.localSize[i] THEN 1 ELSE 0) - (IF cell[i] < 0 THEN 1 ELSE 0)
    IN xyzToLinear(side(1), side(2), side(3))

shiftCellIndices(g, x, y, z) ==
    LET cell == <<x, y, z>>
        side(i) == (IF cell[i] >= g.localSize[i] THEN 1 ELSE 0) - (IF cell[i] < 0 THEN 1 ELSE 0)
    IN [i \in 1..3 |-> cell[i] - side(i) * g.localSize[i]]

globalIDtoCellCoord(id, globalSize) ==
    << id % globalSize[1],
       (id \div globalSize[1]) % globalSize[2],
       id \div (globalSize[1] * globalSize[2]) >>

(***************************************************************************)
(* Cell access.  A T* is a record: null, or the index of the element of    *)
(* data[] it points to (which for an unchecked data[index] may lie outside *)
(* the buffer).                                                            *)
(***************************************************************************)
NULL == [null |-> TRUE, index |-> 0]
Ptr(index) == [null |-> FALSE, index |-> index]

\* stands for std::numeric_limits<LocalID>::min(): negative, hence no valid id
LocalID_min == -2147483647

(* ---- part_005 ---- *)
localIdInBounds(len, id) == 0 <= id /\ id < len

get_id(len, id) == IF localIdInBounds(len, id) THEN Ptr(id) ELSE NULL

localIDFromCellCoordinates(c, g, x, y, z) ==
    LET nIndex == neighbourIndexFromCellCoordinates(g, x, y, z)
        neighbourRank == g.neighbourIndexToRank[nIndex]
        isSelf == neighbourRank = g.rank
        neighbourIsSelf == nIndex # 13 /\ isSelf
        shifted == shiftCellIndices(g, x, y, z)
        id == IF neighbourIsSelf
              THEN localIDFromLocalCoordinates(c, g, shifted[1], shifted[2], shifted[3])
              ELSE localIDFromLocalCoordinates(c, g, x, y, z)
    IN IF cellIndicesAreWithinBounds(c, g, x, y, z) /\ (isSelf \/ neighbourRank # MPI_PROC_NULL)
       THEN id
       ELSE LocalID_min

get_xyz(c, g, len, x, y, z) == get_id(len, localIDFromCellCoordinates(c, g, x, y, z))

(* ---- grid.hpp ---- *)
\* get(LocalID) of grid.hpp:727-735 and part_004:956-964
get_id_grid(len, id) == IF id < 0 \/ id > len THEN NULL ELSE Ptr(id)

\* get(x, y, z) of grid.hpp:627-725; debug: built with FSGRID_DEBUG
get_xyz_grid(c, g, x, y, z, debug) ==
    LET cell == <<x, y, z>>
        below(i) == IF cell[i] < 0 THEN 1 ELSE 0
        above(i) == IF cell[i] >= g.localSize[i] THEN 1 ELSE 0
        isInNeighbourDomain ==
            13 - 9 * below(1) + 9 * above(1) - 3 * below(2) + 3 * above(2) - below(3) + above(3)
        coord_shift == [i \in 1..3 |-> IF above(i) = 1 THEN -1 ELSE (IF below(i) = 1 THEN 1 ELSE 0)]
        inside ==
            \A i \in 1..3 :
                IF g.localSize[i] <= 1 /\ ~c.periodic[i]
                THEN cell[i] = 0
                ELSE ~(cell[i] < 0 - c.stencil \/ cell[i] >= g.localSize[i] + c.stencil)
        moved == [i \in 1..3 |-> cell[i] + coord_shift[i] * g.localSize[i]]
    IN IF debug /\ ~inside THEN NULL
       ELSE IF isInNeighbourDomain # 13 /\ g.neighbourIndexToRank[isInNeighbourDomain] = MPI_PROC_NULL
            THEN NULL
       ELSE IF isInNeighbourDomain # 13 /\ g.neighbourIndexToRank[isInNeighbourDomain] = g.rank
            THEN Ptr(LocalIDForCoords(c, g, moved[1], moved[2], moved[3]))
       ELSE Ptr(LocalIDForCoords(c, g, x, y, z))

getGlobalIndices(g, x, y, z) == <<g.localStart[1] + x, g.localStart[2] + y, g.localStart[3] + z>>

\* globalToLocal that takes the cell just past the local slab for a local one
globalToLocal_pastEnd(g, x, y, z) ==
    LET retval == <<x - g.localStart[1], y - g.localStart[2], z - g.localStart[3]>>
    IN IF \/ retval[1] > g.localSize[1] \/ retval[2] > g.localSize[2] \/ retval[3] > g.localSize[3]
          \/ retval[1] < 0 \/ retval[2] < 0 \/ retval[3] < 0
       THEN <<-1, -1, -1>>
       ELSE retval

globalToLocal(g, x, y, z) ==
    LET retval == <<x - g.localStart[1], y - g.localStart[2], z - g.localStart[3]>>
    IN IF \/ retval[1] >= g.localSize[1] \/ retval[2] >= g.localSize[2] \/ retval[3] >= g.localSize[3]
          \/ retval[1] < 0 \/ retval[2] < 0 \/ retval[3] < 0
       THEN <<-1, -1, -1>>
       ELSE retval

\* getTaskForGlobalID that divides by the smaller slab size throughout
getTaskForGlobalID_noRemainder(c, g, id) ==
    LET cell == globalIDtoCellCoord(id, c.globalSize)
        taskIndex ==
            [i \in 1..3 |-> cell[i] \div (c.globalSize[i] \div g.numTasksPerDim[i])]
    IN <<MPI_Cart_rank(g.numTasksPerDim, taskIndex), 0>>

\* grid.hpp:446-496: the owning rank and the cell's LocalID there
getTaskForGlobalID(c, g, id) ==
    LET cell == globalIDtoCellCoord(id, c.globalSize)
        taskIndex ==
            [i \in 1..3 |->
                LET n_per_task == c.globalSize[i] \div g.numTasksPerDim[i]
                    remainder == c.globalSize[i] % g.numTasksPerDim[i]
                IN IF cell[i] < remainder * (n_per_task + 1)
                   THEN cell[i] \div (n_per_task + 1)
                   ELSE remainder + (cell[i] - remainder * (n_per_task + 1)) \div n_per_task]
        thatTasksStart ==
            [i \in 1..3 |-> calcLocalStart(c.globalSize[i], g.numTasksPerDim[i], taskIndex[i])]
        thatTaskStorageSize ==
            [i \in 1..3 |-> calcLocalSize(c.globalSize[i], g.numTasksPerDim[i], taskIndex[i]) + 2 * c.stencil]
        term(i) == cell[i] - thatTasksStart[i] + c.stencil
        stride2 == IF c.globalSize[1] <= 1 THEN 1 ELSE thatTaskStorageSize[1]
        stride3 == IF c.globalSize[2] <= 1 THEN stride2 ELSE stride2 * thatTaskStorageSize[2]
        second == (IF c.globalSize[1] <= 1 THEN 0 ELSE term(1))
                + (IF c.globalSize[2] <= 1 THEN 0 ELSE stride2 * term(2))
                + (IF c.globalSize[3] <= 1 THEN 0 ELSE stride3 * term(3))
    IN <<MPI_Cart_rank(g.numTasksPerDim, taskIndex), second>>

(***************************************************************************)
(* Access specifications: a grid is constructed, then its accessors are    *)
(* called with arguments from bounded sets; q holds the last call.         *)
(***************************************************************************)
\* largest global size per axis, access specifications
MaxGA == 3
\* largest number of FS ranks, access specifications
MaxProcsA == 3
\* how far beyond the stored range a coordinate argument may lie
Beyond == 1

InitAccess ==
    /\ cfg \in Configs(MaxGA, MaxProcsA, MaxH)
    /\ InitCommon

Quiet == UNCHANGED <<cfg, phase, grids, data, pc, round, recvReq, msgs, wroteAt, hist>>

\* coordinate arguments: the stored range and Beyond cells on either side
ArgRange(g, i) == (0 - cfg.stencil - Beyond)..(g.localSize[i] + cfg.stencil - 1 + Beyond)

DataLen(r) == Product3(grids[r].storageSize)

Call_get_xyz(r, x, y, z) ==
    /\ phase = "ready"
    /\ q = NoCall
    /\ q' = [op |-> "get_xyz", rank |-> r, arg |-> <<x, y, z>>, debug |-> FALSE,
             res |-> get_xyz(cfg, grids[r], DataLen(r), x, y, z)]
    /\ Quiet

Call_get_xyz_grid(r, x, y, z, debug) ==
    /\ phase = "ready"
    /\ q = NoCall
    /\ q' = [op |-> "get_xyz_grid", rank |-> r, arg |-> <<x, y, z>>, debug |-> debug,
             res |-> get_xyz_grid(cfg, grids[r], x, y, z, debug)]
    /\ Quiet

Call_get_id(r, id) ==
    /\ phase = "ready"
    /\ q = NoCall
    /\ q' = [op |-> "get_id", rank |-> r, arg |-> id, res |-> get_id(DataLen(r), id)]
    /\ Quiet

Call_get_id_grid(r, id) ==
    /\ phase = "ready"
    /\ q = NoCall
    /\ q' = [op |-> "get_id_grid", rank |-> r, arg |-> id, res |-> get_id_grid(DataLen(r), id)]
    /\ Quiet

\* the storage index of a cell coordinate, as grid.hpp and as the Coordinates
\* class compute it
Call_LocalIDForCoords(r, x, y, z) ==
    /\ phase = "ready"
    /\ q = NoCall
    /\ q' = [op |-> "LocalIDForCoords", rank |-> r, arg |-> <<x, y, z>>,
             res |-> LocalIDForCoords(cfg, grids[r], x, y, z),
             fromLocal |-> localIDFromLocalCoordinates(cfg, grids[r], x, y, z),
             len |-> DataLen(r)]
    /\ Quiet

NextGet ==
    \/ Construct
    \/ /\ q = NoCall
       /\ \E r \in DOMAIN pc :
             \E x \in ArgRange(grids[r], 1), y \in ArgRange(grids[r], 2), z \in ArgRange(grids[r], 3) :
                Call_LocalIDForCoords(r, x, y, z)
    \/ /\ q = NoCall
       /\ \E r \in DOMAIN pc :
             \E x \in ArgRange(grids[r], 1), y \in ArgRange(grids[r], 2), z \in ArgRange(grids[r], 3) :
                Call_get_xyz(r, x, y, z)
    \/ /\ q = NoCall
       /\ \E r \in DOMAIN pc :
             \E x \in ArgRange(grids[r], 1), y \in ArgRange(grids[r], 2), z \in ArgRange(grids[r], 3) :
                \E debug \in BOOLEAN : Call_get_xyz_grid(r, x, y, z, debug)
    \/ /\ q = NoCall
       /\ \E r \in DOMAIN pc : \E id \in (0 - Beyond)..(DataLen(r) + Beyond) : Call_get_id(r, id)
    \/ /\ q = NoCall
       /\ \E r \in DOMAIN pc : \E id \in (0 - Beyond)..(DataLen(r) + Beyond) : Call_get_id_grid(r, id)

SpecGet == Init /\ [][NextGet]_vars

Call_globalToLocal(r, x, y, z) ==
    /\ phase = "ready"
    /\ q = NoCall
    /\ q' = [op |-> "globalToLocal", rank |-> r, arg |-> <<x, y, z>>,
             res |-> globalToLocal(grids[r], x, y, z)]
    /\ Quiet

\* localToGlobal, then globalToLocal of its result
Call_roundtrip(r, x, y, z) ==
    /\ phase = "ready"
    /\ q = NoCall
    /\ LET global == getGlobalIndices(grids[r], x, y, z)
       IN q' = [op |-> "roundtrip", rank |-> r, arg |-> <<x, y, z>>, global |-> global,
                res |-> globalToLocal(grids[r], global[1], global[2], global[3])]
    /\ Quiet

\* getTaskForGlobalID of the global id of a local cell
Call_getTaskForGlobalID(r, x, y, z) ==
    /\ phase = "ready"
    /\ q = NoCall
    /\ LET gid == GlobalIDForCoords(cfg, grids[r], x, y, z)
       IN q' = [op |-> "getTaskForGlobalID", rank |-> r, arg |-> <<x, y, z>>, gid |-> gid,
                res |-> getTaskForGlobalID(cfg, grids[r], gid)]
    /\ Quiet

\* global coordinate arguments: the global grid and Beyond cells on either side
GlobalArgRange(i) == (0 - Beyond)..(cfg.globalSize[i] - 1 + Beyond)

NextCoords ==
    \/ Construct
    \/ /\ q = NoCall
       /\ \E r \in DOMAIN pc :
             \E x \in GlobalArgRange(1), y \in GlobalArgRange(2), z \in GlobalArgRange(3) :
                Call_globalToLocal(r, x, y, z)
    \/ /\ q = NoCall
       /\ \E r \in DOMAIN pc : \E cell \in InnerCells(grids[r]) :
             Call_roundtrip(r, cell[1], cell[2], cell[3])
    \/ /\ q = NoCall
       /\ \E r \in DOMAIN pc : \E cell \in InnerCells(grids[r]) :
             Call_getTaskForGlobalID(r, cell[1], cell[2], cell[3])

SpecCoords == InitAccess /\ [][NextCoords]_vars

Displacements == Triples(-1..1)

\* makeStencil(i, j, k) on an inner cell, with what the stencil's accessors
\* return and what localIDFromCellCoordinates returns around the cell
Call_makeStencil(r, i, j, k) ==
    /\ phase = "ready"
    /\ q = NoCall
    /\ LET s == makeStencil(cfg, grids[r], i, j, k)
       IN q' = [op |-> "makeStencil", rank |-> r, arg |-> <<i, j, k>>,
                named |-> NamedAccessors(s),
                indices |-> indices(s),
                exists |-> [d \in Displacements |-> cellExists(s, d[1], d[2], d[3])],
                localID |-> [d \in Displacements |->
                               localIDFromCellCoordinates(cfg, grids[r], i + d[1], j + d[2], k + d[3])]]
    /\ Quiet

NextStencilGrid ==
    \/ Construct
    \/ /\ q = NoCall
       /\ \E r \in DOMAIN pc : \E cell \in InnerCells(grids[r]) :
             Call_makeStencil(r, cell[1], cell[2], cell[3])

SpecStencilGrid == InitAccess /\ [][NextStencilGrid]_vars

(***************************************************************************)
(* Stencil properties on a grid                                            *)
(***************************************************************************)
\* the accessor named for a displacement: x is left/right, y is down/up,
\* z is far/near
AccessorName(d) ==
    IF d = <<0, 0, 0>> THEN "center"
    ELSE (IF d[1] = 1 THEN "right" ELSE IF d[1] = -1 THEN "left" ELSE "")
      \o (IF d[2] = 1 THEN "up" ELSE IF d[2] = -1 THEN "down" ELSE "")
      \o (IF d[3] = 1 THEN "near" ELSE IF d[3] = -1 THEN "far" ELSE "")

\* what the branching accessor stands for: its id, or the centre's id when
\* it returns the invalid sentinel
BranchingOrCentre(d) ==
    IF q.localID[d] # LocalID_min THEN q.localID[d] ELSE q.localID[<<0, 0, 0>>]

\* a displacement that leaves the cell in place on every collapsed axis that
\* is periodic
StaysOnCollapsed(d) == \A a \in 1..3 : (cfg.globalSize[a] = 1 /\ cfg.periodic[a]) => d[a] = 0

IndicesDisplacement(n) == <<(n % 3) - 1, ((n \div 3) % 3) - 1, (n \div 9) - 1>>

MaxLimit == 2

\* multipliers: x fastest strides of a block four wide, and the same with a
\* collapsed x or y axis
MultiplierSamples == {<<1, 4, 16>>, <<0, 1, 4>>, <<1, 0, 4>>}
OffsetSamples == {0, 21}
\* masks: no bit, every bit, every neighbour bit, every other bit
MaskSamples == {{}, 0..31, Dirs \ {13}, {n \in Dirs : n % 2 = 0}}

StencilInputs ==
    {[op |-> "input",
      constants |-> StencilConstants(limits, multipliers, offset, shift, fallbackToCenter),
      centre |-> centre] :
        limits \in Triples(1..MaxLimit), multipliers \in MultiplierSamples,
        offset \in OffsetSamples, shift \in MaskSamples, fallbackToCenter \in MaskSamples,
        centre \in Triples(0..(MaxLimit - 1))}

InitStencil ==
    /\ q \in {in \in StencilInputs : \A a \in 1..3 : in.centre[a] < in.constants.limits[a]}
    /\ cfg = [globalSize |-> q.constants.limits, decomposition |-> <<1, 1, 1>>, numRanks |-> 1,
              periodic |-> <<FALSE, FALSE, FALSE>>, stencil |-> 1]
    /\ phase = "stencil"
    /\ grids = <<>> /\ data = <<>> /\ pc = <<>> /\ round = <<>>
    /\ recvReq = <<>> /\ msgs = {} /\ wroteAt = <<>> /\ hist = <<>>

\* the cells a stencil is asked about: the slab and one cell around it
QueriedCells(limits) == {c \in Triples(-1..MaxLimit) : \A a \in 1..3 : c[a] <= limits[a]}

Call_calculateIndex(c) ==
    /\ q.op = "input"
    /\ LET s == FsStencil(q.centre[1], q.centre[2], q.centre[3], q.constants)
       IN q' = [op |-> "calculateIndex", constants |-> q.constants, centre |-> q.centre,
                arg |-> c, res |-> calculateIndex(s, c)]
    /\ Quiet

Call_calculateIndex_003(c) ==
    /\ q.op = "input"
    /\ LET s == FsStencil(q.centre[1], q.centre[2], q.centre[3], q.constants)
       IN q' = [op |-> "calculateIndex_003", constants |-> q.constants, centre |-> q.centre,
                arg |-> c, res |-> calculateIndex_003(s, c)]
    /\ Quiet

NextStencil ==
    \/ /\ q.op = "input"
       /\ \E c \in QueriedCells(q.constants.limits) : Call_calculateIndex(c)
    \/ /\ q.op = "input"
       /\ \E c \in QueriedCells(q.constants.limits) : Call_calculateIndex_003(c)

SpecStencil == InitStencil /\ [][NextStencil]_vars

Answered == q.op \in {"calculateIndex", "calculateIndex_003"}

\* the locality of the queried cell, per axis: -1 below the slab, 1 at or
\* above the limit, 0 inside
Locality(a) == IF q.arg[a] < 0 THEN -1 ELSE IF q.arg[a] >= q.constants.limits[a] THEN 1 ELSE 0
LocalityIndex == 13 + 9 * Locality(1) + 3 * Locality(2) + Locality(3)
Dot(m, c) == m[1] * c[1] + m[2] * c[2] + m[3] * c[3]

\* C5: for any StencilConstants and any centre, a queried cell whose locality
\* has its fallbackToCenter bit set gets offset + multipliers . centre, the
\* centre cell's own index, whatever the shift bit is.
C5_FallbackToCentre ==
    (Answered /\ LocalityIndex \in q.constants.fallbackToCenter) =>
        q.res = q.constants.offset + Dot(q.constants.multipliers, q.centre)

\* a cell outside the slab whose locality has both bits set was answered with
\* the centre's index, which is not the index of the queried cell
C5_Witness ==
    /\ Answered
    /\ LocalityIndex # 13
    /\ LocalityIndex \in q.constants.fallbackToCenter
    /\ LocalityIndex \in q.constants.shift
    /\ q.res = q.constants.offset + Dot(q.constants.multipliers, q.centre)
    /\ q.res # q.constants.offset + Dot(q.constants.multipliers, q.arg)

\* C6: a queried cell whose locality has its shift bit set and its
\* fallbackToCenter bit clear gets offset + multipliers . (c - locality *
\* limits), so that one step outside the slab is the inner cell on the
\* opposing face; with both bits clear it gets offset + multipliers . c.
C6_SelfWrap ==
    (Answered /\ LocalityIndex \notin q.constants.fallbackToCenter) =>
        /\ LocalityIndex \in q.constants.shift =>
              /\ q.res = q.constants.offset
                        + Dot(q.constants.multipliers,
                              [a \in 1..3 |-> q.arg[a] - Locality(a) * q.constants.limits[a]])
              /\ \A a \in 1..3 :
                    (q.constants.multipliers = <<1, 4, 16>> /\ q.arg[a] = -1) =>
                        (q.res - q.constants.offset) \div q.constants.multipliers[a] % 4
                            = q.constants.limits[a] - 1
              /\ \A a \in 1..3 :
                    (q.constants.multipliers = <<1, 4, 16>> /\ q.arg[a] = q.constants.limits[a]) =>
                        (q.res - q.constants.offset) \div q.constants.multipliers[a] % 4 = 0
        /\ LocalityIndex \notin q.constants.shift =>
              q.res = q.constants.offset + Dot(q.constants.multipliers, q.arg)

\* a cell one step below the slab on x and at the limit on z, shifted to the
\* opposing faces
C6_Witness ==
    /\ Answered
    /\ q.constants.multipliers = <<1, 4, 16>>
    /\ q.constants.limits = <<2, 1, 2>>
    /\ q.arg = <<-1, 0, 2>>
    /\ LocalityIndex \in q.constants.shift
    /\ LocalityIndex \notin q.constants.fallbackToCenter
    /\ q.res = q.constants.offset + 1

(***************************************************************************)
(* Accessor properties                                                     *)
(***************************************************************************)
GetAnswered == q.op \in {"get_xyz", "get_xyz_grid"}

\* the position in the cell buffer of a stored cell: x fastest, H cells of
\* halo before the inner cells on every axis that is not collapsed
StorageIndex(g, cell) ==
    LET S == g.storageSize
        off(a) == IF S[a] = 1 THEN 0 ELSE cell[a] + cfg.stencil
    IN off(1) + S[1] * off(2) + S[1] * S[2] * off(3)

IsInner(g, cell) == \A a \in 1..3 : 0 <= cell[a] /\ cell[a] < g.localSize[a]
InHaloRange(g, cell) ==
    \A a \in 1..3 : 0 - cfg.stencil <= cell[a] /\ cell[a] < g.localSize[a] + cfg.stencil
\* per axis, the side on which the cell lies outside the inner region
Direction(g, cell) ==
    [a \in 1..3 |-> IF cell[a] < 0 THEN -1 ELSE IF cell[a] >= g.localSize[a] THEN 1 ELSE 0]
NeighbourTowards(g, cell) ==
    LET d == Direction(g, cell) IN g.neighbourIndexToRank[xyzToLinear(d[1], d[2], d[3])]
\* the cell moved back by the local size on every axis it lies outside of
WrappedCell(g, cell) == [a \in 1..3 |-> cell[a] - Direction(g, cell)[a] * g.localSize[a]]

C7_InnerNonNull(g, cell, res) == IsInner(g, cell) => ~res.null
C7_OutsideNull(g, cell, res) == ~InHaloRange(g, cell) => res = NULL
C7_HaloNullIffOpen(g, cell, res) ==
    (InHaloRange(g, cell) /\ ~IsInner(g, cell)) =>
        (res = NULL <=> NeighbourTowards(g, cell) = MPI_PROC_NULL)
C7_SelfWrapReal(g, cell, res) ==
    (InHaloRange(g, cell) /\ ~IsInner(g, cell) /\ NeighbourTowards(g, cell) = g.rank) =>
        /\ IsInner(g, WrappedCell(g, cell))
        /\ res = Ptr(StorageIndex(g, WrappedCell(g, cell)))

\* C7 as stated: get(x, y, z) is non-null for every inner cell; null when a
\* coordinate lies outside [-H, Li+H); for a halo coordinate null exactly
\* when the neighbour process towards it does not exist; and when that
\* neighbour is the process itself, the pointer to the inner cell at the
\* coordinate moved by the local size.
C7_AsStated ==
    GetAnswered =>
        LET g == grids[q.rank]
        IN /\ C7_InnerNonNull(g, q.arg, q.res)
           /\ C7_OutsideNull(g, q.arg, q.res)
           /\ C7_HaloNullIffOpen(g, q.arg, q.res)
           /\ C7_SelfWrapReal(g, q.arg, q.res)

\* C8 as stated: get(localID) is null for every id < 0 and every
\* id >= len(data), and the address of data[id] for 0 <= id < len(data).
C8_AsStated ==
    q.op \in {"get_id", "get_id_grid"} =>
        IF q.arg < 0 \/ q.arg >= DataLen(q.rank)
        THEN q.res = NULL
        ELSE q.res = Ptr(q.arg)

(***************************************************************************)
(* Coordinate properties                                                   *)
(***************************************************************************)
\* a global coordinate relative to the start of a process's slab
Relative(g, global) == [a \in 1..3 |-> global[a] - g.localStart[a]]

\* C9: globalToLocal(localToGlobal(x, y, z)) = (x, y, z) for every inner
\* local cell, and globalToLocal of a global coordinate with a component of
\* g - localStart outside [0, Li) is (-1, -1, -1), which is no valid result.
C9_GlobalToLocal ==
    /\ q.op = "roundtrip" => (IsInner(grids[q.rank], q.arg) /\ q.res = q.arg)
    /\ q.op = "globalToLocal" =>
          LET g == grids[q.rank]
          IN IF IsInner(g, Relative(g, q.arg))
             THEN q.res = Relative(g, q.arg) /\ q.res # <<-1, -1, -1>>
             ELSE q.res = <<-1, -1, -1>>

\* the round trip on a cell off the origin of the second process, whose
\* global coordinate differs from the local one
C9_Witness ==
    /\ q.op = "roundtrip"
    /\ q.rank = 1
    /\ q.arg # <<0, 0, 0>>
    /\ q.global # q.arg
    /\ q.res = q.arg

\* the global cell of a local cell of process r
GlobalCell(r, cell) == [a \in 1..3 |-> grids[r].localStart[a] + cell[a]]

\* C10: for every worker r and every inner cell of r,
\* getTaskForGlobalID(globalIDFromLocalCoordinates(x, y, z)) names r, the one
\* process whose slab [localStart, localStart + Li) holds the cell on every
\* axis.
C10_OwnerOfGlobalID ==
    q.op = "getTaskForGlobalID" =>
        /\ q.res[1] = q.rank
        /\ \A r \in Ranks :
              IsInner(grids[r], Relative(grids[r], GlobalCell(q.rank, q.arg))) <=> r = q.res[1]

\* the owner found for a cell of the last process of a grid whose cells
\* do not divide evenly among the processes
C10_Witness ==
    /\ q.op = "getTaskForGlobalID"
    /\ cfg.numRanks > 1
    /\ \E a \in 1..3 : cfg.globalSize[a] % cfg.decomposition[a] # 0
    /\ q.rank = cfg.numRanks - 1
    /\ q.res[1] = q.rank

(***************************************************************************)
(* Storage properties                                                      *)
(***************************************************************************)
\* a valid local cell coordinate: within the halo range on every axis that
\* is not collapsed, anything on a collapsed axis
ValidLocalCell(g, cell) ==
    \A a \in 1..3 :
        cfg.globalSize[a] > 1 =>
            (0 - cfg.stencil <= cell[a] /\ cell[a] < g.localSize[a] + cfg.stencil)

\* the length of the cell buffer stated from the sizes: Li + 2H on axes that
\* are not collapsed, 1 on collapsed axes
ExpectedLen(g) ==
    LET S(a) == IF cfg.globalSize[a] = 1 THEN 1 ELSE g.localSize[a] + 2 * cfg.stencil
    IN S(1) * S(2) * S(3)

\* C11: on every worker, the storage index of every valid local cell
\* coordinate (and so of every inner cell) is at least 0 and less than
\* len(data), and len(data) is the product of Li + 2H over the axes that are
\* not collapsed.
C11_LocalIDInBounds ==
    q.op = "LocalIDForCoords" =>
        /\ q.len = ExpectedLen(grids[q.rank])
        /\ ValidLocalCell(grids[q.rank], q.arg) =>
              (0 <= q.res /\ q.res < ExpectedLen(grids[q.rank]))
        /\ IsInner(grids[q.rank], q.arg) =>
              (0 <= q.fromLocal /\ q.fromLocal < ExpectedLen(grids[q.rank]))

\* the last cell of the buffer: the outermost halo corner of a grid with a
\* collapsed axis, asked with a coordinate off that axis
C11_Witness ==
    /\ q.op = "LocalIDForCoords"
    /\ ValidLocalCell(grids[q.rank], q.arg)
    /\ \E a \in 1..3 : cfg.globalSize[a] = 1 /\ q.arg[a] # 0
    /\ \E a \in 1..3 : cfg.globalSize[a] > 1 /\ q.arg[a] = grids[q.rank].localSize[a] + cfg.stencil - 1
    /\ q.res = q.len - 1
    /\ q.len > 1

(***************************************************************************)
(* The parent group: FS ranks and the processes beyond them (grid.hpp)     *)
(***************************************************************************)
MaxParent == 3
MaxCount == 2
BufLen == 4
MaxHParent == 1

MPI_UNDEFINED == -32766

Parents(c) == 0..(c.parentSize - 1)

computeColourFs(parentRank, numRanks) == IF parentRank < numRanks THEN 1 ELSE MPI_UNDEFINED

computeColourAux(parentRank, parentCommSize, numRanks) ==
    IF parentRank > (parentCommSize - 1) % numRanks
    THEN (parentRank - (parentCommSize % numRanks)) \div numRanks
    ELSE MPI_UNDEFINED

\* MPI_Comm_split(parentComm, colour, parentRank): the processes that share
\* the colour of process pr, and the rank of pr among them (key = parentRank)
SplitGroup(members, colour, pr) == {o \in members : colour[o] = colour[pr]}
SplitRank(members, colour, pr) == Cardinality({o \in SplitGroup(members, colour, pr) : o < pr})

\* the members (parent ranks) of the communicator that process pr keeps in
\* comm3d when its constructor returns: the FS ranks on an FS rank, the
\* auxiliary group (comm3d = comm3d_aux) on every other process
comm3dGroup(c, pr) ==
    LET colorFs == [o \in Parents(c) |-> computeColourFs(o, c.numRanks)]
        colorAux == [o \in Parents(c) |-> computeColourAux(o, c.parentSize, c.numRanks)]
    IN IF colorFs[pr] # MPI_UNDEFINED
       THEN SplitGroup(Parents(c), colorFs, pr)
       ELSE SplitGroup(Parents(c), colorAux, pr)

\* members not set by the constructor of a process that is not an FS rank
Unset == "unset"

\* The FsGrid object of the process with parent rank pr after its constructor
FsGridParent(c, pr) ==
    LET numTasksPerDim == computeNumTasksPerDim(c.decomposition, c.numRanks)
        colorFs == [o \in Parents(c) |-> computeColourFs(o, c.numRanks)]
        colorAux == [o \in Parents(c) |-> computeColourAux(o, c.parentSize, c.numRanks)]
        rankAux == SplitRank(Parents(c), colorAux, pr)
        taskPositionAux == MPI_Cart_coords(numTasksPerDim, rankAux)
        localSize == [i \in 1..3 |-> calcLocalSize(c.globalSize[i], numTasksPerDim[i], taskPositionAux[i])]
        localStart == [i \in 1..3 |-> calcLocalStart(c.globalSize[i], numTasksPerDim[i], taskPositionAux[i])]
    IN IF colorFs[pr] # MPI_UNDEFINED
       THEN FsGrid(c, SplitRank(Parents(c), colorFs, pr))
       ELSE [ rank |-> -1,
              numTasksPerDim |-> numTasksPerDim,
              taskPosition |-> taskPositionAux,
              localSize |-> <<0, 0, 0>>,
              localStart |-> localStart,
              storageSize |-> Unset,
              tooSmall |-> localSizeTooSmall(c.globalSize, localSize, c.stencil),
              neighbourIndexToRank |-> [n \in Dirs |-> 0],
              neighbourSendType |-> Unset,
              neighbourReceiveType |-> Unset ]

ParentConfigs ==
    {c @@ [parentSize |-> s] : c \in Configs(MaxG, MaxProcs, MaxHParent), s \in 1..MaxParent}

\* FSGRID_PROCS selects numRanks of the parentSize processes (all of them
\* when it is unset)
InitParent ==
    /\ cfg \in {c \in ParentConfigs : c.numRanks <= c.parentSize}
    /\ InitCommon

\* The constructor, run by every process of the parent communicator
ConstructParent ==
    /\ phase = "new"
    /\ IF computeNumTasksPerDim(cfg.decomposition, cfg.numRanks) = "error"
       THEN /\ phase' = "failed"
            /\ UNCHANGED <<grids, data, pc, round, recvReq, wroteAt, hist>>
       ELSE LET gs == [r \in Parents(cfg) |-> FsGridParent(cfg, r)]
            IN /\ grids' = gs
               /\ phase' = IF \E r \in Parents(cfg) : gs[r].tooSmall THEN "failed" ELSE "ready"
               /\ data' = [r \in Parents(cfg) |->
                              IF gs[r].rank = -1 THEN <<>>
                              ELSE [i \in 0..(Product3(gs[r].storageSize) - 1) |-> 0]]
               /\ pc' = [r \in Parents(cfg) |-> "idle"]
               /\ round' = [r \in Parents(cfg) |-> 0]
               /\ recvReq' = [r \in Parents(cfg) |-> {}]
               /\ wroteAt' = [r \in Parents(cfg) |-> {}]
               /\ hist' = [r \in Parents(cfg) |-> <<>>]
    /\ UNCHANGED <<cfg, msgs, q>>

\* updateGhostCells() on a process that is not an FS rank
updateGhostCells_nonFS(p) ==
    /\ phase = "ready"
    /\ grids[p].rank = -1
    /\ pc[p] = "idle"
    /\ round[p] < MaxRounds
    /\ round' = [round EXCEPT ![p] = @ + 1]
    /\ hist' = [hist EXCEPT ![p] = Append(@, data[p])]
    /\ UNCHANGED <<cfg, phase, grids, data, pc, recvReq, msgs, wroteAt, q>>

\* Allreduce() that copies count bytes whatever the datatype
AllreduceCopy_countOnly(sendbuf, recvbuf, count, datatypeSize) ==
    [i \in 1..Len(recvbuf) |-> IF i - 1 < count THEN sendbuf[i] ELSE recvbuf[i]]

\* the copy loop of Allreduce() on a process that is not an FS rank
AllreduceCopy(sendbuf, recvbuf, count, datatypeSize) ==
    [i \in 1..Len(recvbuf) |-> IF i - 1 < count * datatypeSize THEN sendbuf[i] ELSE recvbuf[i]]

\* buffers of BufLen bytes; a receive buffer starts with bytes no send holds
SendBufA == [i \in 1..BufLen |-> IF i = 2 THEN 0 ELSE 1]
SendBufB == [i \in 1..BufLen |-> IF i \in {2, 3} THEN 1 ELSE 0]
SendBufs == {SendBufA, SendBufB}
FreshBuf == [i \in 1..BufLen |-> 7]

\* the send buffer each process passes to the collective
SendBufOf == [o \in Parents(cfg) |-> IF o % 2 = 0 THEN SendBufA ELSE SendBufB]

\* MPI_BOR over the buffers of the members, count elements of datatypeSize bytes
MPI_Allreduce(members, sendbufs, recvbuf, count, datatypeSize) ==
    [i \in 1..Len(recvbuf) |->
        IF i - 1 < count * datatypeSize
        THEN (IF \E o \in members : sendbufs[o][i] = 1 THEN 1 ELSE 0)
        ELSE recvbuf[i]]

\* Allreduce() called on a process that is not an FS rank
Allreduce_nonFS(p, sendbuf, count, datatypeSize) ==
    /\ phase = "ready"
    /\ q = NoCall
    /\ grids[p].rank = -1
    /\ count * datatypeSize <= BufLen
    /\ q' = [op |-> "Allreduce", callers |-> {p}, communicated |-> {},
             count |-> count, datatypeSize |-> datatypeSize,
             sendbuf |-> [o \in {p} |-> sendbuf],
             recvbuf |-> [o \in {p} |-> AllreduceCopy(sendbuf, FreshBuf, count, datatypeSize)],
             status |-> [o \in {p} |-> "MPI_ERR_RANK"]]
    /\ UNCHANGED <<cfg, phase, grids, data, pc, round, recvReq, msgs, wroteAt, hist>>

\* Allreduce() called on the FS ranks: the collective over comm3d
Allreduce_FS(p, sendbufs, count, datatypeSize) ==
    /\ phase = "ready"
    /\ q = NoCall
    /\ grids[p].rank # -1
    /\ count * datatypeSize <= BufLen
    /\ LET members == comm3dGroup(cfg, p)
       IN /\ \A o \in members : pc[o] = "idle"
          /\ q' = [op |-> "Allreduce", callers |-> members, communicated |-> members,
                   count |-> count, datatypeSize |-> datatypeSize,
                   sendbuf |-> [o \in members |-> sendbufs[o]],
                   recvbuf |-> [o \in members |->
                                   MPI_Allreduce(members, sendbufs, FreshBuf, count, datatypeSize)],
                   status |-> [o \in members |-> "MPI_SUCCESS"]]
    /\ UNCHANGED <<cfg, phase, grids, data, pc, round, recvReq, msgs, wroteAt, hist>>

NextParent ==
    \/ ConstructParent
    \/ \E p \in DOMAIN pc : grids[p].rank # -1 /\ PostReceives(p)
    \/ \E p \in DOMAIN pc : PostSends(p)
    \/ \E p \in DOMAIN pc, late \in BOOLEAN : Deliver(p, late)
    \/ \E p \in DOMAIN pc : Return(p)
    \/ \E p \in DOMAIN pc : updateGhostCells_nonFS(p)
    \/ /\ q = NoCall
       /\ \E p \in DOMAIN pc, sendbuf \in SendBufs, count \in 0..MaxCount, datatypeSize \in 1..2 :
             Allreduce_nonFS(p, sendbuf, count, datatypeSize)
    \/ /\ q = NoCall
       /\ \E p \in DOMAIN pc, count \in 0..MaxCount, datatypeSize \in 1..2 :
             Allreduce_FS(p, SendBufOf, count, datatypeSize)

SpecParent == InitParent /\ [][NextParent]_vars

(***************************************************************************)
(* Processes that are not FS ranks                                         *)
(***************************************************************************)
NonFS == {p \in DOMAIN grids : p >= cfg.numRanks}

\* the first n bytes of a buffer
Prefix(buf, n) == [i \in 1..n |-> buf[i]]

\* C12: a process of the parent group with parent rank >= numRanks ends the
\* constructor with rank = -1, localSize = (0,0,0) and no cell storage; its
\* updateGhostCells() returns with no receive posted, no message sent and the
\* storage untouched; its Allreduce() copies exactly count * sizeof(datatype)
\* bytes of sendbuf to recvbuf, communicates with nobody and returns a
\* status other than success; the exchange and the Allreduce() of the FS
\* ranks involve FS ranks only.
C12_PassiveContract ==
    /\ phase = "ready" =>
          \A p \in NonFS :
              /\ grids[p].rank = -1
              /\ grids[p].localSize = <<0, 0, 0>>
              /\ data[p] = <<>>
              /\ pc[p] = "idle"
              /\ recvReq[p] = {}
              /\ \A k \in 1..Len(hist[p]) : hist[p][k] = <<>>
    /\ \A m \in msgs : m.src \in Ranks /\ m.dst \in Ranks
    /\ q.op = "Allreduce" =>
          \A p \in q.callers :
              IF p \in NonFS
              THEN /\ q.callers = {p}
                   /\ q.communicated = {}
                   /\ q.status[p] # "MPI_SUCCESS"
                   /\ Prefix(q.recvbuf[p], q.count * q.datatypeSize) = Prefix(q.sendbuf[p], q.count * q.datatypeSize)
                   /\ \A i \in (q.count * q.datatypeSize + 1)..BufLen : q.recvbuf[p][i] = 7
              ELSE /\ q.callers = Ranks
                   /\ q.communicated = Ranks
                   /\ q.status[p] = "MPI_SUCCESS"
                   /\ \A i \in 1..(q.count * q.datatypeSize) :
                         q.recvbuf[p][i] = 1 <=> \E o \in Ranks : q.sendbuf[o][i] = 1

\* a process beyond the FS ranks has returned from updateGhostCells() while
\* an FS rank has a message in flight, and has copied a two-byte element
C12_Witness ==
    /\ phase = "ready"
    /\ msgs # {}
    /\ q.op = "Allreduce"
    /\ \E p \in NonFS : q.callers = {p} /\ round[p] > 0
    /\ q.count = 1
    /\ q.datatypeSize = 2

(***************************************************************************)
(* Errors of the constructor                                               *)
(***************************************************************************)
\* the constructor threw before any process had a task position
DecompositionError == phase = "failed" /\ grids = <<>>

\* the constructor threw "FSGrid too small domains" on process r
TooSmallError(r) == phase = "failed" /\ grids # <<>> /\ grids[r].tooSmall

C13_WitnessBuilt ==
    /\ phase = "ready"
    /\ cfg.numRanks = 2
    /\ Product3(cfg.decomposition) = 2
    /\ \A r \in DOMAIN grids : grids[r].numTasksPerDim = cfg.decomposition

\* what the too-small check is stated to refuse, on the slab of process r
SlabTooSmall(r) ==
    \E a \in 1..3 :
        \/ grids[r].localSize[a] = 0
        \/ cfg.globalSize[a] > cfg.stencil /\ grids[r].localSize[a] < cfg.stencil

\* C14: the constructor raises the too-small-domain error on a process if and
\* only if on some axis Li = 0, or Gi > H and Li < H; every FS rank of a
\* constructed grid has Li >= 1 on every axis and Li >= H where Gi > H.
C14_TooSmall ==
    grids # <<>> =>
        /\ \A r \in DOMAIN grids : grids[r].tooSmall <=> SlabTooSmall(r)
        /\ phase = "failed" <=> \E r \in DOMAIN grids : SlabTooSmall(r)
        /\ phase = "ready" =>
              \A r \in DOMAIN grids : \A a \in 1..3 :
                  /\ grids[r].localSize[a] >= 1
                  /\ cfg.globalSize[a] > cfg.stencil => grids[r].localSize[a] >= cfg.stencil

\* a slab of one cell on an axis of three cells with H = 2: no slab is empty,
\* the error comes from the halo width alone
C14_Witness ==
    /\ phase = "failed"
    /\ grids # <<>>
    /\ \A r \in DOMAIN grids : \A a \in 1..3 : grids[r].localSize[a] >= 1
    /\ \E r \in DOMAIN grids : TooSmallError(r)
    /\ \E r \in DOMAIN grids : ~TooSmallError(r)

(***************************************************************************)
(* BitMask32 on its own (fsstencil_tests.cpp, BitMaskTest)                 *)
(***************************************************************************)
MaxIndex == 70

\* a uint32_t constructor value: bit 31 and the 31 bits below it
UInt32(high, low) == [high |-> high, low |-> low]

\* the bit positions set in a uint32_t
Bits32(b) ==
    {i \in 0..30 : (b.low \div (2 ^ i)) % 2 = 1} \cup (IF b.high = 1 THEN {31} ELSE {})

\* 0, 1, 3 and ~0u of the tests, a value with bit 13 alone cleared among the
\* low 27, and values that set bit 31 or leave it alone
MaskValues ==
    { UInt32(0, 0), UInt32(0, 1), UInt32(0, 3), UInt32(1, 2147483647),
      UInt32(0, 134209535), UInt32(1, 0), UInt32(0, 2147483647), UInt32(0, 1431655765) }

InitBitMask ==
    /\ cfg = <<>>
    /\ phase = "bitmask"
    /\ grids = <<>>
    /\ data = <<>>
    /\ pc = <<>>
    /\ round = <<>>
    /\ recvReq = <<>>
    /\ msgs = {}
    /\ wroteAt = <<>>
    /\ hist = <<>>
    /\ q \in {[op |-> "mask", b |-> b, i |-> 0, res |-> 0] : b \in MaskValues}

\* mask[i]
Call_BitMask32(i) ==
    /\ phase = "bitmask"
    /\ q.op = "mask"
    /\ q' = [op |-> "BitMask32", b |-> q.b, i |-> i, res |-> BitMask32(Bits32(q.b), i)]
    /\ Quiet

NextBitMask == \E i \in 0..MaxIndex : Call_BitMask32(i)

SpecBitMask == InitBitMask /\ [][NextBitMask]_vars

\* bit i of a uint32_t, by division
BitOf(b, i) == IF i = 31 THEN b.high ELSE (b.low \div (2 ^ i)) % 2

\* C15: for an index i in 0..31, mask[i] is bit i of the constructor value,
\* (b >> i) & 1; for an index of 32 or more (32 and 64 included) it is 0 even
\* when every bit is set; with b = 0b00000111111111111101111111111111,
\* mask[13] = 0, every other index in 0..26 reads 1 and 27..32 read 0.
C15_BitMask ==
    q.op = "BitMask32" =>
        /\ q.res \in {0, 1}
        /\ q.i <= 31 => q.res = BitOf(q.b, q.i)
        /\ q.i >= 32 => q.res = 0
        /\ q.b = UInt32(0, 134209535) =>
              /\ q.i = 13 => q.res = 0
              /\ q.i \in (0..26) \ {13} => q.res = 1
              /\ q.i \in 27..32 => q.res = 0

\* index 64 asked of the mask with every bit set
C15_Witness ==
    /\ q.op = "BitMask32"
    /\ q.b = UInt32(1, 2147483647)
    /\ q.i = 64
    /\ q.res = 0

(***************************************************************************)
(* FsStencil::indices() and cellExists() (fsstencil_tests.cpp)             *)
(***************************************************************************)
\* a 3x3x3 block stored without halo, and stored with a halo of one cell in a
\* 5x5x5 buffer; the one-cell stencils of the cellExists tests
ScenarioInputs ==
    { [op |-> "input", constants |-> StencilConstants(<<3, 3, 3>>, <<1, 3, 9>>, 0, {}, {}), centre |-> <<1, 1, 1>>],
      [op |-> "input", constants |-> StencilConstants(<<3, 3, 3>>, <<1, 5, 25>>, 31, {}, {}), centre |-> <<1, 1, 1>>],
      [op |-> "input", constants |-> StencilConstants(<<1, 1, 1>>, <<0, 0, 0>>, 0, Bits32(UInt32(0, 0)), Bits32(UInt32(0, 0))),
       centre |-> <<0, 0, 0>>],
      [op |-> "input",
       constants |-> StencilConstants(<<1, 1, 1>>, <<0, 0, 0>>, 0, Bits32(UInt32(0, 0)), Bits32(UInt32(0, 134209535))),
       centre |-> <<0, 0, 0>>] }

InitScenario ==
    /\ q \in ScenarioInputs \cup {in \in StencilInputs : \A a \in 1..3 : in.centre[a] < in.constants.limits[a]}
    /\ cfg = [globalSize |-> q.constants.limits, decomposition |-> <<1, 1, 1>>, numRanks |-> 1,
              periodic |-> <<FALSE, FALSE, FALSE>>, stencil |-> 1]
    /\ phase = "stencil"
    /\ grids = <<>> /\ data = <<>> /\ pc = <<>> /\ round = <<>>
    /\ recvReq = <<>> /\ msgs = {} /\ wroteAt = <<>> /\ hist = <<>>

Call_indices ==
    /\ q.op = "input"
    /\ LET s == FsStencil(q.centre[1], q.centre[2], q.centre[3], q.constants)
       IN q' = [op |-> "indices", constants |-> q.constants, centre |-> q.centre,
                arg |-> <<0, 0, 0>>, res |-> indices(s)]
    /\ Quiet

Call_cellExists(io, jo, ko) ==
    /\ q.op = "input"
    /\ LET s == FsStencil(q.centre[1], q.centre[2], q.centre[3], q.constants)
       IN q' = [op |-> "cellExists", constants |-> q.constants, centre |-> q.centre,
                arg |-> <<io, jo, ko>>, res |-> cellExists(s, io, jo, ko)]
    /\ Quiet

NextScenario ==
    \/ Call_indices
    \/ \E io \in -1..1, jo \in -1..1, ko \in -1..1 : Call_cellExists(io, jo, ko)

SpecScenario == InitScenario /\ [][NextScenario]_vars

\* the displacement of entry m (0-based) when x changes fastest, then y, then z
CanonicalDisplacement(m) == <<(m % 3) - 1, ((m \div 3) % 3) - 1, (m \div 9) - 1>>

Scenario(limits, multipliers, offset, fallbackToCenter) ==
    /\ q.constants = StencilConstants(limits, multipliers, offset, {}, fallbackToCenter)
    /\ q.centre = (IF limits = <<1, 1, 1>> THEN <<0, 0, 0>> ELSE <<1, 1, 1>>)

\* C16: entry m of indices() is calculateIndex of the centre displaced by
\* ((m mod 3) - 1, ((m div 3) mod 3) - 1, (m div 9) - 1): x changes fastest,
\* (-1,-1,-1) comes first and (+1,+1,+1) last; with limits (3,3,3),
\* multipliers (1,3,9), offset 0, centre (1,1,1) and both masks 0 the result
\* is 0, 1, ..., 26.
C16_IndicesCanonical ==
    q.op = "indices" =>
        /\ Len(q.res) = 27
        /\ \A m \in 0..26 :
              q.res[m + 1] =
                  calculateIndex(FsStencil(q.centre[1], q.centre[2], q.centre[3], q.constants),
                                 [a \in 1..3 |-> q.centre[a] + CanonicalDisplacement(m)[a]])
        /\ Scenario(<<3, 3, 3>>, <<1, 3, 9>>, 0, {}) => q.res = [m \in 1..27 |-> m - 1]

C16_Witness ==
    /\ q.op = "indices"
    /\ Scenario(<<3, 3, 3>>, <<1, 3, 9>>, 0, {})
    /\ q.res[1] = 0
    /\ q.res[2] = 1
    /\ q.res[27] = 26

\* the first nine entries of indices()
FirstNine == [m \in 1..9 |-> q.res[m]]

\* C17 as stated: with limits (3,3,3), multipliers (1,5,25), offset 31, centre
\* (1,1,1) and both masks 0, indices() starts 0,1,2, 5,6,7, 10,11,12.
C17_AsStated ==
    (q.op = "indices" /\ Scenario(<<3, 3, 3>>, <<1, 5, 25>>, 31, {})) =>
        /\ q.res[1] = 0
        /\ q.res[2] = 1
        /\ FirstNine = <<0, 1, 2, 5, 6, 7, 10, 11, 12>>

\* C17: with limits (3,3,3), multipliers (1,5,25), offset 31, centre (1,1,1)
\* and both masks 0, every entry of indices() includes the offset:
\* indices()[0] = 31, indices()[1] = 32 and the first nine entries are
\* 31,32,33, 36,37,38, 41,42,43 (strides 1 and 5 from the index 31 of the
\* first inner cell).
C17_ScenarioS4 ==
    (q.op = "indices" /\ Scenario(<<3, 3, 3>>, <<1, 5, 25>>, 31, {})) =>
        /\ q.res[1] = 31
        /\ q.res[2] = 32
        /\ FirstNine = <<31, 32, 33, 36, 37, 38, 41, 42, 43>>
        /\ q.res[10] = 31 + 25

C17_Witness ==
    /\ q.op = "indices"
    /\ Scenario(<<3, 3, 3>>, <<1, 5, 25>>, 31, {})
    /\ q.res[14] = 31 + 1 + 5 + 25

\* the locality of a cell against the limits, per axis
LocalityOf(cell, limits) ==
    [a \in 1..3 |-> IF cell[a] >= limits[a] THEN 1 ELSE IF cell[a] < 0 THEN -1 ELSE 0]

DisplacedCell == [a \in 1..3 |-> q.centre[a] + q.arg[a]]

\* C18: cellExists(dx,dy,dz) is true iff the fallbackToCenter bit of the
\* neighbour index 13 + 9 lx + 3 ly + lz of the locality of the displaced
\* centre is 0; with no fallback bit set every displacement exists; with
\* limits (1,1,1), multipliers (0,0,0), offset 0, shift 0, centre (0,0,0) and
\* every fallback bit but 13 set, only (0,0,0) exists and every entry of
\* indices() is 0.
C18_CellExists ==
    /\ q.op = "cellExists" =>
          LET l == LocalityOf(DisplacedCell, q.constants.limits)
              ni == 13 + 9 * l[1] + 3 * l[2] + l[3]
          IN /\ q.res <=> ni \notin q.constants.fallbackToCenter
             /\ q.constants.fallbackToCenter = {} => q.res
             /\ Scenario(<<1, 1, 1>>, <<0, 0, 0>>, 0, Dirs \ {13}) => (q.res <=> q.arg = <<0, 0, 0>>)
    /\ (q.op = "indices" /\ Scenario(<<1, 1, 1>>, <<0, 0, 0>>, 0, Dirs \ {13})) =>
          \A m \in 1..27 : q.res[m] = 0

\* in the one-cell stencil with every neighbour bit set, a neighbour is
\* reported missing
C18_Witness ==
    /\ q.op = "cellExists"
    /\ Scenario(<<1, 1, 1>>, <<0, 0, 0>>, 0, Dirs \ {13})
    /\ q.arg = <<1, -1, 0>>
    /\ ~q.res

(***************************************************************************)
(* Communicator and datatype handles of one FsGrid object (grid.hpp)       *)
(***************************************************************************)
MaxFinalize == 2

Handle(kind, name, dir) == [kind |-> kind, name |-> name, dir |-> dir]
MPI_COMM_NULL == Handle("comm", "MPI_COMM_NULL", -1)
Created(h) == [ev |-> "create", h |-> h]
Freed(h) == [ev |-> "free", h |-> h]

\* the MPI_Type_commit calls of the constructor, receive before send for
\* every direction that is not skipped
CommittedTypes(g) ==
    LET slot(k) == IF k % 2 = 1 THEN Handle("type", "neighbourReceiveType", (k - 1) \div 2)
                   ELSE Handle("type", "neighbourSendType", (k - 1) \div 2)
        live(h) == IF h.name = "neighbourReceiveType"
                   THEN g.neighbourReceiveType[h.dir] # MPI_DATATYPE_NULL
                   ELSE g.neighbourSendType[h.dir] # MPI_DATATYPE_NULL
    IN SelectSeq([k \in 1..54 |-> slot(k)], live)

\* The constructor on the process with parent rank pr: whether it returned or
\* threw, the handles the object holds, and the handles MPI created on the
\* way.  fail names the MPI_Cart_create call that reports a failure, if any.
ConstructorRun(c, pr, fail) ==
    LET colorFs == computeColourFs(pr, c.numRanks)
        colorAux == computeColourAux(pr, c.parentSize, c.numRanks)
        none == [rank |-> -2, comm1d |-> MPI_COMM_NULL, comm3d |-> MPI_COMM_NULL,
                 comm1d_aux |-> MPI_COMM_NULL, comm3d_aux |-> MPI_COMM_NULL, types |-> {}]
        comm1d == IF colorFs # MPI_UNDEFINED THEN Handle("comm", "comm1d", -1) ELSE MPI_COMM_NULL
        comm3d == IF colorFs # MPI_UNDEFINED THEN Handle("comm", "comm3d", -1) ELSE MPI_COMM_NULL
        comm1d_aux == IF colorAux # MPI_UNDEFINED THEN Handle("comm", "comm1d_aux", -1) ELSE MPI_COMM_NULL
        comm3d_aux == IF colorAux # MPI_UNDEFINED THEN Handle("comm", "comm3d_aux", -1) ELSE MPI_COMM_NULL
        made(h) == IF h = MPI_COMM_NULL THEN <<>> ELSE <<Created(h)>>
        afterFs == made(comm1d) \o made(comm3d)
        afterAux == afterFs \o made(comm1d_aux) \o made(comm3d_aux)
        g == FsGridParent(c, pr)
    IN IF computeNumTasksPerDim(c.decomposition, c.numRanks) = "error"
       THEN [outcome |-> "thrown", obj |-> none, log |-> <<>>]
       ELSE IF fail = "comm3d" /\ colorFs # MPI_UNDEFINED
       THEN [outcome |-> "thrown", obj |-> [none EXCEPT !.comm1d = comm1d], log |-> made(comm1d)]
       ELSE IF fail = "comm3d_aux" /\ colorAux # MPI_UNDEFINED
       THEN [outcome |-> "thrown",
             obj |-> [none EXCEPT !.comm1d = comm1d, !.comm3d = comm3d, !.comm1d_aux = comm1d_aux],
             log |-> afterFs \o made(comm1d_aux)]
       ELSE IF g.tooSmall
       THEN [outcome |-> "thrown",
             obj |-> [none EXCEPT !.comm1d = comm1d, !.comm3d = comm3d,
                                  !.comm1d_aux = comm1d_aux, !.comm3d_aux = comm3d_aux],
             log |-> afterAux]
       ELSE IF colorFs = MPI_UNDEFINED
       THEN [outcome |-> "constructed",
             obj |-> [rank |-> -1, comm1d |-> comm1d, comm3d |-> comm3d_aux,
                      comm1d_aux |-> comm1d_aux, comm3d_aux |-> MPI_COMM_NULL, types |-> {}],
             log |-> afterAux]
       ELSE [outcome |-> "constructed",
             obj |-> [rank |-> g.rank, comm1d |-> comm1d, comm3d |-> comm3d,
                      comm1d_aux |-> comm1d_aux, comm3d_aux |-> comm3d_aux,
                      types |-> {CommittedTypes(g)[k] : k \in 1..Len(CommittedTypes(g))}],
             log |-> afterAux \o [k \in 1..Len(CommittedTypes(g)) |-> Created(CommittedTypes(g)[k])]]

\* the MPI_Type_free and MPI_Comm_free calls of one finalize(), in order
finalizeFrees(obj) ==
    LET slot(k) == IF k % 2 = 1 THEN Handle("type", "neighbourReceiveType", (k - 1) \div 2)
                   ELSE Handle("type", "neighbourSendType", (k - 1) \div 2)
        live(h) == h \in obj.types
        notNull(h) == h # MPI_COMM_NULL
        types == IF obj.rank # -1 THEN SelectSeq([k \in 1..54 |-> slot(k)], live) ELSE <<>>
    IN types \o SelectSeq(<<obj.comm3d, obj.comm3d_aux, obj.comm1d, obj.comm1d_aux>>, notNull)

\* the object after finalize(): MPI_Type_free and MPI_Comm_free set the
\* handle they are given to the null handle
finalize(obj) ==
    [rank |-> obj.rank, comm1d |-> MPI_COMM_NULL, comm3d |-> MPI_COMM_NULL,
     comm1d_aux |-> MPI_COMM_NULL, comm3d_aux |-> MPI_COMM_NULL,
     types |-> IF obj.rank # -1 THEN {} ELSE obj.types]

InitRelease ==
    /\ cfg \in {c \in ParentConfigs : c.numRanks <= c.parentSize}
    /\ InitCommon

\* every process of the parent communicator runs the constructor
ConstructRelease(fail) ==
    /\ phase = "new"
    /\ LET run == [p \in Parents(cfg) |-> ConstructorRun(cfg, p, fail)]
       IN /\ grids' = [p \in Parents(cfg) |-> run[p].obj]
          /\ pc' = [p \in Parents(cfg) |-> run[p].outcome]
          /\ hist' = [p \in Parents(cfg) |-> run[p].log]
          /\ phase' = IF \E p \in Parents(cfg) : run[p].outcome = "thrown" THEN "failed" ELSE "ready"
    /\ round' = [p \in Parents(cfg) |-> 0]
    /\ UNCHANGED <<cfg, data, recvReq, msgs, wroteAt, q>>

\* finalize() on a constructed object; an object whose constructor threw
\* does not exist and cannot be finalized
Call_finalize(p) ==
    /\ pc[p] = "constructed"
    /\ round[p] < MaxFinalize
    /\ hist' = [hist EXCEPT ![p] = @ \o [k \in 1..Len(finalizeFrees(grids[p])) |-> Freed(finalizeFrees(grids[p])[k])]]
    /\ grids' = [grids EXCEPT ![p] = finalize(@)]
    /\ round' = [round EXCEPT ![p] = @ + 1]
    /\ UNCHANGED <<cfg, phase, data, pc, recvReq, msgs, wroteAt, q>>

NextRelease ==
    \/ \E fail \in {"none", "comm3d", "comm3d_aux"} : ConstructRelease(fail)
    \/ \E p \in DOMAIN pc : Call_finalize(p)

SpecRelease == InitRelease /\ [][NextRelease]_vars

(***************************************************************************)
(* Release of the handles                                                  *)
(***************************************************************************)
Events(p, ev) == {k \in 1..Len(hist[p]) : hist[p][k].ev = ev}
HandlesOf(p, ev) == {hist[p][k].h : k \in Events(p, ev)}

\* the object of p is gone: its constructor threw, or finalize() has run
LifetimeOver(p) == pc[p] = "thrown" \/ (pc[p] = "constructed" /\ round[p] >= 1)

ReleasedOnce(p) ==
    /\ HandlesOf(p, "create") = HandlesOf(p, "free")
    /\ \A k1, k2 \in Events(p, "free") : hist[p][k1].h = hist[p][k2].h => k1 = k2

TypesBeforeComms(p) ==
    \A k1, k2 \in Events(p, "free") :
        (hist[p][k1].h.kind = "type" /\ hist[p][k2].h.kind = "comm") => k1 < k2

\* C19 restricted to objects whose constructor returned: after finalize()
\* every handle the constructor created has been freed exactly once, the
\* datatypes before the communicators, and a second finalize() frees nothing
C19_FinalizeReleases ==
    \A p \in DOMAIN pc :
        (pc[p] = "constructed" /\ round[p] >= 1) => (ReleasedOnce(p) /\ TypesBeforeComms(p))

\* C19 as stated: on every exit path, a constructor that throws included,
\* every communicator and datatype handle a process acquired has been
\* released, exactly once, the datatypes before the communicators.
C19_AsStated ==
    \A p \in DOMAIN pc : LifetimeOver(p) => (ReleasedOnce(p) /\ TypesBeforeComms(p))

\* a worker that also belongs to an auxiliary group has been finalized twice
C19_Witness ==
    \E p \in DOMAIN pc :
        /\ pc[p] = "constructed"
        /\ round[p] = 2
        /\ Cardinality({h \in HandlesOf(p, "free") : h.kind = "comm"}) = 4
        /\ \E h \in HandlesOf(p, "free") : h.kind = "type"

(***************************************************************************)
(* The exchange under fair scheduling                                      *)
(***************************************************************************)
\* MPI_Waitall on the send requests when no send completes before it is
\* matched: p returns once its receives are complete and every message it
\* sent has been received
ReturnSync(p) ==
    /\ \A m \in msgs : m.src # p
    /\ Return(p)

NextExchange ==
    \/ Construct
    \/ \E p \in DOMAIN pc : PostReceives(p)
    \/ \E p \in DOMAIN pc : PostSends(p)
    \/ \E p \in DOMAIN pc, late \in BOOLEAN : Deliver(p, late)
    \/ \E p \in DOMAIN pc : Return(p)
    \/ \E p \in DOMAIN pc : ReturnSync(p)

\* every worker calls updateGhostCells() MaxRounds times and goes on to the
\* next statement, MPI delivers a message whose receive is posted, and a send
\* request completes at the latest when its message has been received
Fairness ==
    /\ WF_vars(Construct)
    /\ \A p \in 0..(MaxProcs - 1) :
          /\ WF_vars(p \in DOMAIN pc /\ PostReceives(p))
          /\ WF_vars(p \in DOMAIN pc /\ PostSends(p))
          /\ WF_vars(p \in DOMAIN pc /\ \E late \in BOOLEAN : Deliver(p, late))
          /\ WF_vars(p \in DOMAIN pc /\ ReturnSync(p))

SpecFair == Init /\ [][NextExchange]_vars /\ Fairness

\* worker p sends in direction d / has a receive with tag d
Sends(p, d) ==
    grids[p].neighbourIndexToRank[d] # MPI_PROC_NULL /\ grids[p].neighbourSendType[d] # MPI_DATATYPE_NULL
Receives(p, d) ==
    grids[p].neighbourIndexToRank[26 - d] # MPI_PROC_NULL /\ grids[p].neighbourSendType[d] # MPI_DATATYPE_NULL

\* sends and receives pair up: one receive for every send, one send for
\* every receive, with blocks of the same number of cells
SendsMatchReceives ==
    phase = "ready" =>
        /\ \A p \in DOMAIN grids : \A d \in Dirs :
              Sends(p, d) =>
                  LET to == grids[p].neighbourIndexToRank[d]
                  IN /\ to \in DOMAIN grids
                     /\ Receives(to, d)
                     /\ grids[to].neighbourIndexToRank[26 - d] = p
                     /\ SubarrayCount(grids[to].neighbourReceiveType[d])
                           = SubarrayCount(grids[p].neighbourSendType[d])
        /\ \A p \in DOMAIN grids : \A d \in Dirs :
              Receives(p, d) =>
                  LET from == grids[p].neighbourIndexToRank[26 - d]
                  IN /\ from \in DOMAIN grids
                     /\ Sends(from, d)
                     /\ grids[from].neighbourIndexToRank[d] = p
        /\ \A m \in msgs :
              /\ Receives(m.dst, m.tag)
              /\ grids[m.dst].neighbourIndexToRank[26 - m.tag] = m.src
              /\ Len(m.snap) = SubarrayCount(grids[m.dst].neighbourReceiveType[m.tag])
        /\ \A p \in DOMAIN grids : \A d \in recvReq[p] : Receives(p, d)

\* nothing is left over once every worker has returned from its last call
NoneUnmatched ==
    (phase = "ready" /\ \A p \in DOMAIN pc : pc[p] = "idle" /\ round[p] = MaxRounds) => msgs = {}

\* C20: every send of worker p in direction d to q = neighbourIndexToRank_p[d]
\* with tag d has exactly one receive at q with tag d and source p, of the
\* same number of cells, and every receive has such a send; no message is
\* left unmatched; and when every worker calls updateGhostCells() and
\* delivery is fair, every worker that is in the call returns from it.
C20_ExchangeCompletes ==
    /\ [](SendsMatchReceives /\ NoneUnmatched)
    /\ \A p \in 0..(MaxProcs - 1) :
          (p \in DOMAIN pc /\ pc[p] # "idle") ~> (p \in DOMAIN pc /\ pc[p] = "idle")

\* two workers on a periodic axis, each the neighbour of the other on both
\* sides, next to an axis where each worker is its own neighbour: both have
\* returned from their last call and no message is left
C20_Witness ==
    /\ phase = "ready"
    /\ cfg.numRanks = 2
    /\ \E a \in 1..3 : cfg.decomposition[a] = 2 /\ cfg.periodic[a] /\ cfg.globalSize[a] = 2
    /\ \E a \in 1..3 : cfg.decomposition[a] = 1 /\ cfg.periodic[a] /\ cfg.globalSize[a] = 2
    /\ \A p \in DOMAIN pc : pc[p] = "idle" /\ round[p] = MaxRounds
    /\ msgs = {}
    /\ \E p \in DOMAIN grids : \E d \in Dirs : Sends(p, d) /\ grids[p].neighbourIndexToRank[d] = p
    /\ \E p \in DOMAIN grids : \E d \in Dirs :
          Sends(p, d) /\ Sends(p, 26 - d) /\ grids[p].neighbourIndexToRank[d] # p
             /\ grids[p].neighbourIndexToRank[d] = grids[p].neighbourIndexToRank[26 - d]

(***************************************************************************)
(* Order of the steps inside one updateGhostCells() call                   *)
(***************************************************************************)
PostsSend(p) == \E m \in msgs' \ msgs : m.src = p
PostsReceive(p) == recvReq'[p] # {} /\ recvReq'[p] # recvReq[p]
Returns(p) == round'[p] = round[p] + 1

ReceiveGate(p) ==
    {d \in Dirs : /\ grids[p].neighbourReceiveType[d] # MPI_DATATYPE_NULL
                  /\ grids[p].neighbourIndexToRank[26 - d] # MPI_PROC_NULL}
SendGate(p) ==
    {d \in Dirs : /\ grids[p].neighbourSendType[d] # MPI_DATATYPE_NULL
                  /\ grids[p].neighbourIndexToRank[d] # MPI_PROC_NULL}

CollapsedAxes == {a \in 1..3 : cfg.globalSize[a] = 1}

\* C22: for every direction d, updateGhostCells posts a receive iff the
\* receive descriptor at d and the rank at 26 - d are not null, and a send
\* iff the send descriptor at d and the rank at d are not null; the send and
\* the receive descriptor of a direction are null together, whatever the
\* number of collapsed axes, so that gating the receive on the send
\* descriptor makes no difference.
C22_Gating ==
    /\ [](phase = "ready" =>
            \A p \in DOMAIN grids : \A d \in Dirs :
                (grids[p].neighbourSendType[d] = MPI_DATATYPE_NULL)
                    <=> (grids[p].neighbourReceiveType[d] = MPI_DATATYPE_NULL))
    /\ [][phase = "ready" =>
            \A p \in DOMAIN pc :
                /\ (pc[p] = "idle" /\ pc'[p] = "recv") => recvReq'[p] = ReceiveGate(p)
                /\ (pc[p] = "recv" /\ pc'[p] = "wait") =>
                      {m.tag : m \in {n \in msgs' \ msgs : n.src = p}} = SendGate(p)]_vars

\* on a grid with two collapsed axes a worker has posted its sends: the
\* directions off the one remaining axis have a neighbour rank (periodic) and
\* no descriptor
C22_Witness ==
    /\ phase = "ready"
    /\ Cardinality(CollapsedAxes) = 2
    /\ \E p \in DOMAIN pc :
          /\ pc[p] = "wait"
          /\ SendGate(p) # {}
          /\ \E d \in Dirs : d # 13 /\ d \notin SendGate(p) /\ grids[p].neighbourIndexToRank[d] # MPI_PROC_NULL

(***************************************************************************)
(* The blocks of the send and receive descriptors, in axis order (the      *)
(* descriptors hold them in the reversed order MPI_ORDER_C wants)          *)
(***************************************************************************)
Offset(d) == << linearToX(d), linearToY(d), linearToZ(d) >>
BlockStart(t, i) == t.start[4 - i]
BlockExtent(t, i) == t.size[4 - i]
Skipped(g, d) == d = 13 \/ \E i \in 1..3 : g.storageSize[i] = 1 /\ Offset(d)[i] # 0
BlockInside(g, t) ==
    \A i \in 1..3 : 0 <= BlockStart(t, i) /\ BlockStart(t, i) + BlockExtent(t, i) <= g.storageSize[i]

\* C23: the send descriptor of a direction that is neither self nor has a
\* non-zero component on a collapsed axis (Si = 1) has extent Li on the axes
\* with offset 0 and H on the axes with offset +1 or -1, and starts at H on
\* the axes with offset 0 or -1 and at Si - 2H on the axes with offset +1,
\* 0 on a collapsed axis; the descriptors of self and of a direction with a
\* non-zero component on a collapsed axis are null for send and receive;
\* every non-null block lies inside [0, Si) on each axis.
C23_SendGeometry ==
    phase = "ready" =>
        \A p \in DOMAIN grids : \A d \in Dirs :
            LET g == grids[p]
                snd == g.neighbourSendType[d]
                rcv == g.neighbourReceiveType[d]
            IN IF Skipped(g, d)
               THEN snd = MPI_DATATYPE_NULL /\ rcv = MPI_DATATYPE_NULL
               ELSE /\ ~snd.null /\ ~rcv.null
                    /\ \A i \in 1..3 :
                          /\ BlockExtent(snd, i) = IF Offset(d)[i] = 0 THEN g.localSize[i] ELSE cfg.stencil
                          /\ BlockStart(snd, i) =
                                IF g.storageSize[i] = 1 THEN 0
                                ELSE IF Offset(d)[i] = 1 THEN g.storageSize[i] - 2 * cfg.stencil
                                ELSE cfg.stencil
                    /\ BlockInside(g, snd)
                    /\ BlockInside(g, rcv)

\* A grid with a collapsed axis, a process that has posted its sends, and a
\* direction with offsets +1, -1 on the other two axes
C23_Witness ==
    /\ phase = "ready"
    /\ \E p \in DOMAIN grids : \E d \in Dirs :
          /\ pc[p] = "wait"
          /\ ~grids[p].neighbourSendType[d].null
          /\ \E i, j, k \in 1..3 :
                /\ grids[p].storageSize[i] = 1
                /\ Offset(d)[j] = 1 /\ Offset(d)[k] = -1
          /\ \E e \in Dirs \ {13} : grids[p].neighbourSendType[e].null

\* C24: the receive descriptor stored for direction d starts, on each axis,
\* at H when the offset component is 0, at 0 when the component is +1 (the
\* data moving in direction +1 comes from the neighbour at -1 and lands in
\* the low halo), at Si - H when the component is -1, and at 0 on a collapsed
\* axis.
C24_ReceiveStart ==
    phase = "ready" =>
        \A p \in DOMAIN grids : \A d \in Dirs :
            LET g == grids[p]
                rcv == g.neighbourReceiveType[d]
            IN ~rcv.null =>
                  \A i \in 1..3 :
                      BlockStart(rcv, i) =
                          IF g.storageSize[i] = 1 THEN 0
                          ELSE IF Offset(d)[i] = 0 THEN cfg.stencil
                          ELSE IF Offset(d)[i] = 1 THEN 0
                          ELSE g.storageSize[i] - cfg.stencil

\* C24 as stated: Si - H for the component +1 and 0 for the component -1
C24_AsStated ==
    phase = "ready" =>
        \A p \in DOMAIN grids : \A d \in Dirs :
            LET g == grids[p]
                rcv == g.neighbourReceiveType[d]
            IN ~rcv.null =>
                  \A i \in 1..3 :
                      BlockStart(rcv, i) =
                          IF Offset(d)[i] = 0 THEN cfg.stencil
                          ELSE IF Offset(d)[i] = 1 THEN g.storageSize[i] - cfg.stencil
                          ELSE 0

\* A process that has received into a block with components +1, -1 and 0 on
\* a grid without collapsed axis
C24_Witness ==
    /\ phase = "ready"
    /\ \E p \in DOMAIN grids : \E d \in Dirs :
          /\ round[p] >= 1
          /\ ~grids[p].neighbourReceiveType[d].null
          /\ grids[p].neighbourIndexToRank[26 - d] # MPI_PROC_NULL
          /\ \A i \in 1..3 : grids[p].storageSize[i] > 1
          /\ \E i, j, k \in 1..3 : Offset(d)[i] = 1 /\ Offset(d)[j] = -1 /\ Offset(d)[k] = 0

(***************************************************************************)
(* Several rounds of updateGhostCells() with writes in between             *)
(***************************************************************************)
\* the messages the step takes out of flight for p
Consumed(p) == {m \in msgs \ msgs' : m.dst = p}

\* a step that completes the receives p has posted
Completes(p) == recvReq[p] # {} /\ recvReq'[p] = {}

\* every receive posted in p's round k is filled by the message its source
\* sent in the source's round k
RoundsMatch ==
    phase = "ready" =>
        \A p \in DOMAIN pc :
            Completes(p) =>
                /\ Cardinality(Consumed(p)) = Cardinality(recvReq[p])
                /\ \A m \in Consumed(p) : m.rnd = round[p] /\ m.tag \in recvReq[p]

\* after the k-th return of every process the halos hold what their owners
\* held when they entered their k-th exchange (the inner cells of a process
\* do not change while it is inside the call)
HalosOfRound == \A k \in 1..MaxRounds : AllReturned(k) => HaloCorrect([p \in Ranks |-> hist[p][k]])

\* C25: over several rounds with writes between the rounds and no barrier,
\* every receive posted in round k is filled by the message its source sent
\* in its round k, and the halos a process holds after its k-th return are
\* the values their owners had when they entered their k-th exchange, on
\* every grid the constructor accepts.
C25_RoundsDoNotMix == [][RoundsMatch]_vars /\ []HalosOfRound

\* C25 on the grids where no slab is thinner than the halo
C25_RoundsDoNotMixWide ==
    [][RoundsMatch]_vars /\ []((phase = "ready" /\ ~ThinAxis) => HalosOfRound)

\* a process that is one round ahead of a neighbour: its messages of two
\* rounds for the same receive are in flight, with a write in between, while
\* the neighbour still waits in the earlier round
C25_Overlap ==
    /\ phase = "ready"
    /\ \E s, p \in Ranks :
          /\ s # p
          /\ round[s] = 1 /\ pc[s] = "wait" /\ 0 \in wroteAt[s] /\ 1 \in wroteAt[s]
          /\ round[p] = 0 /\ pc[p] = "wait" /\ recvReq[p] # {}
          /\ \E m, n \in msgs :
                m.src = s /\ n.src = s /\ m.dst = p /\ n.dst = p /\ m.tag = n.tag /\ m.rnd = 0 /\ n.rnd = 1

(***************************************************************************)
(* The neighbour tables on their own: indexToRank, rankToIndex and the     *)
(* masks made of them, for every position of a process grid of up to       *)
(* MaxTasks slabs per axis                                                 *)
(***************************************************************************)
MaxTasks == 3

\* int narrowed to (signed) char
static_cast_char(v) == ((v + 128) % 256) - 128

\* part_005: the counter n follows the position in the table
RECURSIVE mapNeighbourRankToIndexFrom(_, _, _, _)
mapNeighbourRankToIndexFrom(filled, indexToRankMap, numRanks, n) ==
    IF n = 27 THEN filled
    ELSE LET rank == indexToRankMap[n]
         IN mapNeighbourRankToIndexFrom(
                IF rank >= 0 /\ numRanks > rank
                THEN [filled EXCEPT ![rank] = static_cast_char(n)]
                ELSE filled,
                indexToRankMap, numRanks, n + 1)

\* rankToIndex that stores the position after the entry
mapNeighbourRankToIndex_offByOne(indexToRankMap, numRanks) ==
    [r \in 0..(numRanks - 1) |->
        IF \E n \in Dirs : indexToRankMap[n] = r
        THEN 1 + CHOOSE n \in Dirs : indexToRankMap[n] = r /\ \A m \in Dirs : indexToRankMap[m] = r => m <= n
        ELSE static_cast_char(MPI_PROC_NULL)]

mapNeighbourRankToIndex(indexToRankMap, numRanks) ==
    mapNeighbourRankToIndexFrom([r \in 0..(numRanks - 1) |-> static_cast_char(MPI_PROC_NULL)],
                                indexToRankMap, numRanks, 0)

\* part_004: the counter n is advanced by the assignment alone.  The state
\* of the loop is the table and the counter.
RECURSIVE mapNeighbourRankToIndexFrom_004(_, _, _, _, _)
mapNeighbourRankToIndexFrom_004(filled, indexToRankMap, numRanks, n, k) ==
    IF k = 27 THEN [filled |-> filled, n |-> n]
    ELSE LET rank == indexToRankMap[k]
         IN IF numRanks > rank /\ rank >= 0
            THEN mapNeighbourRankToIndexFrom_004([filled EXCEPT ![rank] = static_cast_char(n)],
                                                 indexToRankMap, numRanks, n + 1, k + 1)
            ELSE mapNeighbourRankToIndexFrom_004(filled, indexToRankMap, numRanks, n, k + 1)

\* the historic builder with a counter advanced on every entry
mapNeighbourRankToIndex_004_everyEntry(indexToRankMap, numRanks) ==
    [filled |-> mapNeighbourRankToIndex(indexToRankMap, numRanks), n |-> 27]

mapNeighbourRankToIndex_004(indexToRankMap, numRanks) ==
    mapNeighbourRankToIndexFrom_004([r \in 0..(numRanks - 1) |-> static_cast_char(MPI_PROC_NULL)],
                                    indexToRankMap, numRanks, 0, 0)

\* the tables of the tests allNeighboursAreSelf, noneAreSelf and
\* firstAndLastAreSelf, with the rank they are asked about
GivenTables ==
    { [rank |-> 1, indexToRank |-> [n \in Dirs |-> 1]],
      [rank |-> 0, indexToRank |-> [n \in Dirs |-> IF n = 13 THEN 0 ELSE 1]],
      [rank |-> 0, indexToRank |-> [n \in Dirs |-> IF n \in {0, 26} THEN 0 ELSE 1]] }

TableConfigs(maxTasks) == [numTasksPerDim : Triples(1..maxTasks), periodic : Triples(BOOLEAN)]

NoTable == [op |-> "none"]

InitNeighbour ==
    /\ cfg \in TableConfigs(MaxTasks)
    /\ phase = "tables"
    /\ grids = <<>>
    /\ data = <<>>
    /\ pc = <<>>
    /\ round = <<>>
    /\ recvReq = <<>>
    /\ msgs = {}
    /\ wroteAt = <<>>
    /\ hist = <<>>
    /\ q = NoTable

\* the table of the FS rank at taskPosition, or of a non-FS process
\* (rank = -1, whatever its task position)
Call_mapNeigbourIndexToRank(taskPosition, rank) ==
    /\ phase = "tables"
    /\ q = NoTable
    /\ rank = -1 \/ rank = MPI_Cart_rank(cfg.numTasksPerDim, taskPosition)
    /\ q' = [op |-> "indexToRank", made |-> TRUE, rank |-> rank, taskPosition |-> taskPosition,
             numRanks |-> Product3(cfg.numTasksPerDim),
             indexToRank |-> mapNeigbourIndexToRank(taskPosition, cfg.numTasksPerDim, cfg.periodic, rank)]
    /\ Quiet

\* a table written out by hand
Call_given(t) ==
    /\ phase = "tables"
    /\ q = NoTable
    /\ q' = [op |-> "indexToRank", made |-> FALSE, rank |-> t.rank, taskPosition |-> <<0, 0, 0>>,
             numRanks |-> 2, indexToRank |-> t.indexToRank]
    /\ Quiet

Call_mapNeighbourRankToIndex ==
    /\ phase = "tables"
    /\ q.op = "indexToRank"
    /\ q' = [op |-> "rankToIndex", made |-> q.made, rank |-> q.rank, numRanks |-> q.numRanks,
             indexToRank |-> q.indexToRank,
             rankToIndex |-> mapNeighbourRankToIndex(q.indexToRank, q.numRanks)]
    /\ Quiet

\* part_004 builds the table of an FS rank only
Call_mapNeighbourRankToIndex_004 ==
    /\ phase = "tables"
    /\ q.op = "indexToRank"
    /\ q.rank # -1
    /\ LET res == mapNeighbourRankToIndex_004(q.indexToRank, q.numRanks)
       IN q' = [op |-> "rankToIndex_004", made |-> q.made, rank |-> q.rank, numRanks |-> q.numRanks,
                indexToRank |-> q.indexToRank, rankToIndex |-> res.filled, n |-> res.n]
    /\ Quiet

\* the two masks of the stencil constants, for the table's own rank or any
\* other rank
Call_makeNeigbourBitMask(rank) ==
    /\ phase = "tables"
    /\ q.op = "indexToRank"
    /\ q' = [op |-> "masks", made |-> q.made, own |-> rank = q.rank, rank |-> rank,
             indexToRank |-> q.indexToRank,
             shift |-> makeNeigbourBitMask(rank, q.indexToRank),
             fallbackToCenter |-> makeNullNeighbourBitMask(q.indexToRank)]
    /\ Quiet

TaskPositions == {t \in Triples(0..(MaxTasks - 1)) : \A i \in 1..3 : t[i] < cfg.numTasksPerDim[i]}

NextNeighbour ==
    \/ \E t \in TaskPositions, r \in -1..(MaxTasks * MaxTasks * MaxTasks - 1) : Call_mapNeigbourIndexToRank(t, r)
    \/ \E t \in GivenTables : Call_given(t)
    \/ Call_mapNeighbourRankToIndex
    \/ Call_mapNeighbourRankToIndex_004
    \/ \E r \in -1..(MaxTasks * MaxTasks * MaxTasks - 1) : Call_makeNeigbourBitMask(r)

SpecNeighbour == InitNeighbour /\ [][NextNeighbour]_vars

(***************************************************************************)
(* Properties of the neighbour tables                                      *)
(***************************************************************************)
\* t + (dx,dy,dz), taken modulo Pi on the periodic axes
WrappedPosition(P, periodic, t, n) ==
    [i \in 1..3 |->
        LET pos == t[i] + Offset(n)[i]
        IN IF periodic[i] THEN ((pos % P[i]) + P[i]) % P[i] ELSE pos]

\* the rank at that position, the null rank when it is off the process grid
ExpectedNeighbour(P, periodic, t, n) ==
    LET w == WrappedPosition(P, periodic, t, n)
    IN IF \A i \in 1..3 : w[i] \in 0..(P[i] - 1)
       THEN CHOOSE r \in 0..(Product3(P) - 1) : MPI_Cart_coords(P, r) = w
       ELSE MPI_PROC_NULL

\* the table a process holds after the constructor is the stated one
TableAsStated(rank, P, periodic, t, table) ==
    IF rank = -1
    THEN \A n \in Dirs : table[n] = MPI_PROC_NULL
    ELSE /\ \A n \in Dirs : table[n] = ExpectedNeighbour(P, periodic, t, n)
         /\ table[13] = rank

\* C26: entry n of a worker's indexToRank is the rank of the process at
\* t + (dx,dy,dz), taken modulo Pi on every periodic axis, when that position
\* lies in [0,Pi) on all three axes, and the null rank otherwise; entry 13 is
\* the process's own rank; on a passive rank every entry is null.  Stated
\* for every process of the parent communicator after the constructor.
C26_NeighbourTable ==
    phase = "ready" =>
        \A p \in DOMAIN grids :
            TableAsStated(grids[p].rank, grids[p].numTasksPerDim, cfg.periodic, grids[p].taskPosition,
                          grids[p].neighbourIndexToRank)

\* C26 for the workers alone
C26_NeighbourTableWorkers ==
    phase = "ready" =>
        \A p \in DOMAIN grids :
            grids[p].rank # -1 =>
                TableAsStated(grids[p].rank, grids[p].numTasksPerDim, cfg.periodic, grids[p].taskPosition,
                              grids[p].neighbourIndexToRank)

\* C26 for the tables mapNeigbourIndexToRank returns
C26_NeighbourTable_005 ==
    (q.op = "indexToRank" /\ q.made) =>
        TableAsStated(q.rank, cfg.numTasksPerDim, cfg.periodic, q.taskPosition, q.indexToRank)

\* the positions of a table that hold a rank of the FS communicator
ValidAt(table, numRanks) == {k \in Dirs : table[k] \in 0..(numRanks - 1)}

Occurs(table, r) == \E n \in Dirs : table[n] = r

\* the last position of a rank in a table it occurs in
LastOf(table, r) == CHOOSE n \in Dirs : table[n] = r /\ \A m \in Dirs : table[m] = r => m <= n

Sentinel == static_cast_char(MPI_PROC_NULL)

\* C27: for every rank r in [0, numFsRanks), if r occurs in indexToRank then
\* rankToIndex[r] is an index n in 0..26 with indexToRank[n] = r, and if r
\* does not occur rankToIndex[r] is the sentinel; for every table, with null
\* entries and with ranks that occupy several indices.
C27_RankToIndexInverse ==
    q.op = "rankToIndex" =>
        /\ DOMAIN q.rankToIndex = 0..(q.numRanks - 1)
        /\ \A r \in 0..(q.numRanks - 1) :
              IF Occurs(q.indexToRank, r)
              THEN q.rankToIndex[r] \in Dirs /\ q.indexToRank[q.rankToIndex[r]] = r
              ELSE q.rankToIndex[r] = Sentinel /\ Sentinel \notin Dirs

\* rankToIndex of a table with a null entry, a rank at several indices, a
\* rank at one index and a rank that is no neighbour
C27_Witness ==
    /\ q.op = "rankToIndex"
    /\ q.made
    /\ \E n \in Dirs : q.indexToRank[n] = MPI_PROC_NULL
    /\ \E r \in 0..(q.numRanks - 1) : ~Occurs(q.indexToRank, r)
    /\ \E r \in 0..(q.numRanks - 1) : Cardinality({n \in Dirs : q.indexToRank[n] = r}) > 1
    /\ \E r \in 0..(q.numRanks - 1) : Cardinality({n \in Dirs : q.indexToRank[n] = r}) = 1

\* C30: the side counter of the historic mapNeighbourRankToIndex advances
\* only when an entry is written, that is on the valid entries, and stays
\* behind the position in the table from the first invalid (null or
\* out-of-range) entry on: a rank r that occurs gets the number of valid
\* entries before its last occurrence, which is that position only when no
\* invalid entry precedes it; a rank that does not occur keeps the sentinel.
C30_HistoricBuilder ==
    q.op = "rankToIndex_004" =>
        /\ q.n = Cardinality(ValidAt(q.indexToRank, q.numRanks))
        /\ \A r \in 0..(q.numRanks - 1) :
              IF Occurs(q.indexToRank, r)
              THEN LET last == LastOf(q.indexToRank, r)
                   IN /\ q.rankToIndex[r] =
                            Cardinality({k \in ValidAt(q.indexToRank, q.numRanks) : k < last})
                      /\ q.rankToIndex[r] <= last
                      /\ q.rankToIndex[r] = last <=> \A k \in 0..last : k \in ValidAt(q.indexToRank, q.numRanks)
              ELSE q.rankToIndex[r] = Sentinel

\* C30 as stated: the counter has advanced on the invalid entries
C30_AsStated ==
    (q.op = "rankToIndex_004" /\ ValidAt(q.indexToRank, q.numRanks) # Dirs) =>
        q.n > Cardinality(ValidAt(q.indexToRank, q.numRanks))

\* a table for which the historic builder gives a rank an index that holds
\* another rank or the null rank
C30_Witness ==
    /\ q.op = "rankToIndex_004"
    /\ q.made
    /\ \E r \in 0..(q.numRanks - 1) :
          /\ Occurs(q.indexToRank, r)
          /\ q.rankToIndex[r] \in Dirs
          /\ q.indexToRank[q.rankToIndex[r]] # r

\* the axes on which the process is its own neighbour: periodic, one slab
WrapsToSelf(i) == cfg.periodic[i] /\ cfg.numTasksPerDim[i] = 1

\* the shift mask of a worker, made of its own table
OwnShiftMask == q.op = "masks" /\ q.made /\ q.own /\ q.rank # -1

\* C28: bit n of the shift mask of a worker is set if and only if n is not
\* the centre and every non-zero component of the triplet of n lies on a
\* periodic axis with Pi = 1; so, when axis i is periodic with Pi = 1, among
\* the directions whose other two components are 0 the bit is set exactly
\* for the components +1 and -1 on axis i.
C28_SingleSlabShift ==
    OwnShiftMask =>
        /\ \A n \in 0..31 :
              BitMask32(q.shift, n) = 1 <=>
                  /\ n \in Dirs \ {13}
                  /\ \A a \in 1..3 : Offset(n)[a] # 0 => WrapsToSelf(a)
        /\ \A i \in 1..3 :
              WrapsToSelf(i) =>
                  \A n \in Dirs :
                      (\A a \in (1..3) \ {i} : Offset(n)[a] = 0) =>
                          (BitMask32(q.shift, n) = 1 <=> Offset(n)[i] \in {-1, 1})

\* C28 as stated: with axis i periodic and Pi = 1, bit n is set if and only
\* if component i of the triplet of n is +1 or -1, for every n
C28_AsStated ==
    OwnShiftMask =>
        \A i \in 1..3 :
            WrapsToSelf(i) =>
                \A n \in Dirs : BitMask32(q.shift, n) = 1 <=> Offset(n)[i] \in {-1, 1}

\* the mask of a worker on a process grid split over one axis, with one
\* slab on a periodic axis and one slab on a non-periodic axis
C28_Witness ==
    /\ OwnShiftMask
    /\ q.shift # {}
    /\ \E i, j, k \in 1..3 :
          /\ WrapsToSelf(i)
          /\ cfg.numTasksPerDim[j] > 1
          /\ cfg.numTasksPerDim[k] = 1 /\ ~cfg.periodic[k]

\* the tests of makeNeigbourBitMask on the hand-written tables
TestsOfMakeNeigbourBitMask ==
    (q.op = "masks" /\ ~q.made /\ q.own) =>
        /\ q.indexToRank = [n \in Dirs |-> 1] =>
              \A i \in Dirs : BitMask32(q.shift, i) = IF i = 13 THEN 0 ELSE 1
        /\ q.indexToRank = [n \in Dirs |-> IF n = 13 THEN 0 ELSE 1] =>
              \A i \in Dirs : BitMask32(q.shift, i) = 0
        /\ q.indexToRank = [n \in Dirs |-> IF n \in {0, 26} THEN 0 ELSE 1] =>
              \A i \in Dirs : BitMask32(q.shift, i) = IF i \in {0, 26} THEN 1 ELSE 0

\* C29: for every rank and every table, bit n of makeNeigbourBitMask(rank,
\* indexToRank) is 1 if and only if n # 13 and indexToRank[n] = rank; bit 13
\* is 0 even when indexToRank[13] = rank and bits 27..31 are 0; bit 13 of
\* fallbackToCenter is 0 as well.
C29_ShiftMask ==
    /\ q.op = "masks" =>
          /\ \A n \in Dirs \ {13} : BitMask32(q.shift, n) = IF q.indexToRank[n] = q.rank THEN 1 ELSE 0
          /\ BitMask32(q.shift, 13) = 0
          /\ \A n \in 27..31 : BitMask32(q.shift, n) = 0
          /\ BitMask32(q.fallbackToCenter, 13) = 0
    /\ TestsOfMakeNeigbourBitMask

\* the masks of a process that stands at entry 13 of its table, is its own
\* neighbour in other directions and has an open boundary
C29_Witness ==
    /\ q.op = "masks"
    /\ q.made
    /\ q.indexToRank[13] = q.rank
    /\ q.shift # {}
    /\ q.fallbackToCenter # {}

====
